---- MODULE Spec2Model ----
(***************************************************************************)
(* Widget-state reconciliation of streamlit: the three-layer SessionState  *)
(* (lib/streamlit/state/session_state.py), widget registration and the     *)
(* coalescing of WidgetStates (lib/streamlit/state/widgets.py), and the    *)
(* (de)serializers of the option-based widgets (lib/streamlit/elements).   *)
(***************************************************************************)
EXTENDS Integers, Sequences, FiniteSets, TLC

(***************************************************************************)
(* Bounds of the model.                                                    *)
(***************************************************************************)
\* Number of operations performed on one SessionState.
MaxOps == 7
\* Number of entries of a WidgetStates message given to coalesce_widget_states.
MaxWidgets == 2
\* Number of options of a selectbox or select_slider whose serializer and
\* deserializer are applied one after the other.
MaxOptions == 3

(***************************************************************************)
(* Python values.  Values of different Python types are records of         *)
(* different shapes, so that any two of them can be compared.              *)
(***************************************************************************)
PyNone == [t |-> "None"]
PyInt(i) == [t |-> "int", i |-> i]
PyStr(s) == [t |-> "str", s |-> s]
PyBool(b) == [t |-> "bool", b |-> b]
\* A list of numbers (the `data` of an array message).
PyList(l) == [t |-> "list", l |-> l]
\* A tuple of option values (the value of a range select_slider).
PyTuple(l) == [t |-> "tuple", tl |-> l]
\* A DoubleArray / SInt64Array / StringArray protobuf message.
ArrayMsg(l) == [t |-> "msg", data |-> l]

\* Python truthiness (`not ui_value`, `x or False`).
Truthy(v) ==
    CASE v.t = "None" -> FALSE
      [] v.t = "int" -> v.i # 0
      [] v.t = "bool" -> v.b
      [] v.t = "str" -> v.s # ""
      [] v.t = "list" -> v.l # <<>>
      [] v.t = "tuple" -> v.tl # <<>>
      [] OTHER -> TRUE

GENERATED_WIDGET_KEY_PREFIX == "$$GENERATED_WIDGET_KEY"

\* str.startswith
StartsWith(s, prefix) ==
    /\ Len(s) >= Len(prefix)
    /\ SubSeq(s, 1, Len(prefix)) = prefix

(***************************************************************************)
(* WidgetState protos: an id and the one field of the `value` oneof that   *)
(* is set.  `which` is the result of WhichOneof("value").                  *)
(***************************************************************************)
WidgetStateProto(id, which, value) == [id |-> id, which |-> which, value |-> value]

ArrayValueTypes == {"double_array_value", "int_array_value", "string_array_value"}

element_type_to_value_type ==
    [button |-> "trigger_value",
     checkbox |-> "bool_value",
     file_uploader |-> "int_array_value",
     multiselect |-> "int_array_value",
     radio |-> "int_value",
     selectbox |-> "int_value",
     slider |-> "double_array_value"]

(***************************************************************************)
(* Deserializers.  A deserializer is a closure; it is modelled by the      *)
(* name of the function and the variables it closes over.  Call gives      *)
(* what calling it returns, CallRaises whether the call raises.            *)
(***************************************************************************)
deserialize_select_box(options, index) ==
    [fn |-> "deserialize_select_box", options |-> options, index |-> index]

deserialize_select_slider(options, slider_value, is_range_value) ==
    [fn |-> "deserialize_select_slider", options |-> options,
     slider_value |-> slider_value, is_range_value |-> is_range_value]

\* st.button: `return ui_value or False`
deserialize_button == [fn |-> "deserialize_button"]

\* st.file_uploader: `return ui_value`
deserialize_file_uploader == [fn |-> "deserialize_file_uploader"]

ButtonCall(d, ui_value) == IF Truthy(ui_value) THEN ui_value ELSE PyBool(FALSE)

\* options[idx] of a Python list (0-based, negative indexes count from the end).
PyIndexOK(options, idx) == idx >= -Len(options) /\ idx < Len(options)
PyIndex(options, idx) == IF idx >= 0 THEN options[idx + 1] ELSE options[Len(options) + idx + 1]

SelectBoxRaises(d, ui_value) ==
    /\ Len(d.options) > 0
    /\ IF ui_value.t = "None" THEN ~PyIndexOK(d.options, d.index)
       ELSE IF ui_value.t = "int" THEN ~PyIndexOK(d.options, ui_value.i)
       ELSE IF ui_value.t = "bool" THEN ~PyIndexOK(d.options, IF ui_value.b THEN 1 ELSE 0)
       ELSE TRUE

SelectBoxCall(d, ui_value) ==
    LET idx == IF ui_value.t = "None" THEN d.index
               ELSE IF ui_value.t = "int" THEN ui_value.i
               ELSE IF ui_value.b THEN 1 ELSE 0
    IN  IF Len(d.options) > 0 THEN PyStr(PyIndex(d.options, idx)) ELSE PyNone

\* The list the select_slider maps over: ui_value, or slider_value when
\* ui_value is falsy.
SelectSliderInput(d, ui_value) ==
    IF ~Truthy(ui_value) THEN PyList(d.slider_value) ELSE ui_value

SelectSliderRaises(d, ui_value) ==
    LET in == SelectSliderInput(d, ui_value)
    IN  \/ in.t # "list"
        \/ \E i \in DOMAIN in.l : ~PyIndexOK(d.options, in.l[i])
        \/ (~d.is_range_value /\ in.l = <<>>)

\* Mutant: the first option only, also for a range.
SelectSliderCall_single(d, ui_value) ==
    PyStr(PyIndex(d.options, SelectSliderInput(d, ui_value).l[1]))

SelectSliderCall(d, ui_value) ==
    LET in == SelectSliderInput(d, ui_value)
        return_value == [i \in DOMAIN in.l |-> PyIndex(d.options, in.l[i])]
    IN  IF d.is_range_value THEN PyTuple(return_value) ELSE PyStr(return_value[1])

CallRaises(d, ui_value) ==
    CASE d.fn = "deserialize_select_box" -> SelectBoxRaises(d, ui_value)
      [] d.fn = "deserialize_select_slider" -> SelectSliderRaises(d, ui_value)
      [] d.fn = "deserialize_button" -> FALSE
      [] d.fn = "deserialize_file_uploader" -> FALSE

Call(d, ui_value) ==
    CASE d.fn = "deserialize_select_box" -> SelectBoxCall(d, ui_value)
      [] d.fn = "deserialize_select_slider" -> SelectSliderCall(d, ui_value)
      [] d.fn = "deserialize_button" -> ButtonCall(d, ui_value)
      [] d.fn = "deserialize_file_uploader" -> ui_value

(***************************************************************************)
(* Serializers, closures like the deserializers.  SerializeCall gives the  *)
(* value for the proto field: a number, a boolean, or the list that        *)
(* extends the `data` of an array field.                                   *)
(***************************************************************************)
serialize_select_box(options) == [fn |-> "serialize_select_box", options |-> options]

serialize_select_slider(options, is_range_value) ==
    [fn |-> "serialize_select_slider", options |-> options,
     is_range_value |-> is_range_value]

\* st.button: `return bool(v)`
serialize_button == [fn |-> "serialize_button"]

\* st.file_uploader: `return v`
serialize_file_uploader == [fn |-> "serialize_file_uploader"]

\* util.index_(iterable, x): the 0-based index of the first element equal
\* to x; ValueError when there is none.
index_Raises(options, v) ==
    v.t # "str" \/ \A i \in DOMAIN options : options[i] # v.s
index_(options, v) ==
    (CHOOSE i \in DOMAIN options :
        options[i] = v.s /\ \A j \in 1..(i - 1) : options[j] # v.s) - 1

SerializeRaises(s, v) ==
    CASE s.fn = "serialize_select_box" -> index_Raises(s.options, v)
      [] s.fn = "serialize_select_slider" ->
             \/ (s.is_range_value /\ v.t # "tuple")
             \/ LET to_serialize ==
                        IF s.is_range_value
                        THEN [i \in DOMAIN v.tl |-> PyStr(v.tl[i])]
                        ELSE <<v>>
                IN  \E i \in DOMAIN to_serialize :
                       index_Raises(s.options, to_serialize[i])
      [] s.fn = "serialize_button" -> FALSE
      [] s.fn = "serialize_file_uploader" -> FALSE

SerializeCall(s, v) ==
    CASE s.fn = "serialize_select_box" -> PyInt(index_(s.options, v))
      [] s.fn = "serialize_select_slider" ->
             LET to_serialize ==
                     IF s.is_range_value
                     THEN [i \in DOMAIN v.tl |-> PyStr(v.tl[i])]
                     ELSE <<v>>
             IN  PyList([i \in DOMAIN to_serialize |->
                            index_(s.options, to_serialize[i])])
      [] s.fn = "serialize_button" -> PyBool(Truthy(v))
      [] s.fn = "serialize_file_uploader" -> v

(***************************************************************************)
(* WStates: `states` is a dict id -> Serialized(proto) | Value(value); a   *)
(* Python dict keeps insertion order, so it is a sequence of entries with  *)
(* distinct keys.  `widget_metadata` is a function id -> WidgetMetadata.   *)
(***************************************************************************)
Serialized(proto) == [tag |-> "Serialized", proto |-> proto]
Value(v) == [tag |-> "Value", value |-> v]

WidgetMetadata(id, deserializer, serializer, value_type, callback) ==
    [id |-> id, deserializer |-> deserializer, serializer |-> serializer,
     value_type |-> value_type, callback |-> callback]

DictKeys(st) == {st[i].k : i \in DOMAIN st}
DictIndex(st, k) == CHOOSE i \in DOMAIN st : st[i].k = k
DictItem(st, k) == st[DictIndex(st, k)].item
\* d[k] = item: an existing key keeps its place, a new key goes last.
DictSet(st, k, item) ==
    IF k \in DictKeys(st)
    THEN [st EXCEPT ![DictIndex(st, k)] = [k |-> k, item |-> item]]
    ELSE Append(st, [k |-> k, item |-> item])
\* del d[k]
DictDel(st, k) == SelectSeq(st, LAMBDA e : e.k # k)

\* What `__getattribute__(WhichOneof("value"))` and, for the array value
\* types, `.data` yield; reading `.data` of a scalar raises AttributeError.
ExtractRaises(metadata, proto) ==
    metadata.value_type \in ArrayValueTypes /\ proto.value.t # "msg"

Extract(metadata, proto) ==
    IF metadata.value_type \in ArrayValueTypes
    THEN PyList(proto.value.data)
    ELSE proto.value

\* Mutant: the deserialized value is returned and not kept.
WStates_getitem_no_cache(st, md, k) ==
    IF k \notin DictKeys(st) \/ (DictItem(st, k).tag = "Serialized" /\ k \notin DOMAIN md)
    THEN [exc |-> "KeyError", value |-> PyNone, states |-> st]
    ELSE IF DictItem(st, k).tag = "Value"
    THEN [exc |-> "", value |-> DictItem(st, k).value, states |-> st]
    ELSE IF ExtractRaises(md[k], DictItem(st, k).proto)
    THEN [exc |-> "AttributeError", value |-> PyNone, states |-> st]
    ELSE IF CallRaises(md[k].deserializer, Extract(md[k], DictItem(st, k).proto))
    THEN [exc |-> "TypeError", value |-> PyNone, states |-> st]
    ELSE [exc |-> "",
          value |-> Call(md[k].deserializer, Extract(md[k], DictItem(st, k).proto)),
          states |-> st]

\* WStates.__getitem__: [exc, value, states].  exc is "" when a value is
\* returned, "KeyError" for a missing key or a Serialized item without
\* metadata, and the exception of the deserialization otherwise.
WStates_getitem(st, md, k) ==
    IF k \notin DictKeys(st)
    THEN [exc |-> "KeyError", value |-> PyNone, states |-> st]
    ELSE LET item == DictItem(st, k)
         IN  IF item.tag = "Value"
             THEN [exc |-> "", value |-> item.value, states |-> st]
             ELSE IF k \notin DOMAIN md
             THEN [exc |-> "KeyError", value |-> PyNone, states |-> st]
             ELSE IF ExtractRaises(md[k], item.proto)
             THEN [exc |-> "AttributeError", value |-> PyNone, states |-> st]
             ELSE IF CallRaises(md[k].deserializer, Extract(md[k], item.proto))
             THEN [exc |-> "TypeError", value |-> PyNone, states |-> st]
             ELSE LET deserialized == Call(md[k].deserializer, Extract(md[k], item.proto))
                  IN  [exc |-> "", value |-> deserialized,
                       states |-> DictSet(st, k, Value(deserialized))]

\* Mapping.__contains__ of WStates: `try: self[key]` / `except KeyError`.
WStates_contains(st, md, k) ==
    LET r == WStates_getitem(st, md, k)
    IN  [exc |-> IF r.exc = "KeyError" THEN "" ELSE r.exc,
         value |-> (r.exc = ""), states |-> r.states]

\* MutableMapping.clear of WStates: popitem() until the dict is empty;
\* popitem reads self[key] before deleting, and clear swallows a KeyError.
RECURSIVE WStates_clear(_, _)
WStates_clear(st, md) ==
    IF st = <<>>
    THEN [exc |-> "", states |-> st]
    ELSE LET r == WStates_getitem(st, md, st[1].k)
         IN  IF r.exc = "KeyError" THEN [exc |-> "", states |-> r.states]
             ELSE IF r.exc # "" THEN [exc |-> r.exc, states |-> r.states]
             ELSE WStates_clear(DictDel(r.states, st[1].k), md)

\* Mapping.get of WStates: self[k], or None on a KeyError.
WStates_get(st, md, k) ==
    LET r == WStates_getitem(st, md, k)
    IN  IF r.exc = "KeyError"
        THEN [exc |-> "", value |-> PyNone, states |-> r.states]
        ELSE r

\* WStates.get_serialized(k): [exc, found, widget]; found is FALSE when
\* the default (None) is returned.
get_serialized(st, md, k) ==
    LET none == [exc |-> "", found |-> FALSE, widget |-> WidgetStateProto(k, "", PyNone)]
    IN  IF k \notin DictKeys(st) THEN none
        ELSE LET item == DictItem(st, k)
             IN  IF item.tag = "Value"
                 THEN IF k \notin DOMAIN md THEN none
                      ELSE LET field == md[k].value_type
                           IN  IF SerializeRaises(md[k].serializer, item.value)
                               THEN [none EXCEPT !.exc = "ValueError"]
                               ELSE LET serialized == SerializeCall(md[k].serializer, item.value)
                                    IN  IF (field \in ArrayValueTypes) # (serialized.t = "list")
                                        THEN [none EXCEPT !.exc = "TypeError"]
                                        ELSE [exc |-> "", found |-> TRUE,
                                              widget |->
                                                WidgetStateProto(k, field,
                                                    IF field \in ArrayValueTypes
                                                    THEN ArrayMsg(serialized.l)
                                                    ELSE serialized)]
                 ELSE [exc |-> "", found |-> TRUE, widget |-> item.proto]

\* The first index of sequence q at which P holds, 0 when there is none.
FirstIndex(q, P(_)) ==
    IF \E i \in DOMAIN q : P(q[i])
    THEN CHOOSE i \in DOMAIN q : P(q[i]) /\ \A j \in 1..(i - 1) : ~P(q[j])
    ELSE 0

\* The list of the protos rs that get_serialized returned, without the
\* None's; an exception of get_serialized ends it.
SerializedResult(rs) ==
    LET failed == FirstIndex(rs, LAMBDA r : r.exc # "")
        found == SelectSeq(rs, LAMBDA r : r.found)
    IN  IF failed # 0 THEN [exc |-> rs[failed].exc, widgets |-> <<>>]
        ELSE [exc |-> "", widgets |-> [i \in DOMAIN found |-> found[i].widget]]

\* WStates.as_widget_states: [exc, widgets], the protos of the keys of
\* `states`, in the dict's order, for which get_serialized returns one.
as_widget_states(st, md) ==
    SerializedResult([i \in DOMAIN st |-> get_serialized(st, md, st[i].k)])

(***************************************************************************)
(* SessionState.  S is [old_state, new_session_state, states,              *)
(* widget_metadata]: _old_state and _new_session_state are functions       *)
(* key -> value, states and widget_metadata are the two fields of          *)
(* _new_widget_state.                                                      *)
(***************************************************************************)
\* The orders in which a set of keys can be iterated.
Orders(ks) ==
    {o \in [1..Cardinality(ks) -> ks] : \A i, j \in DOMAIN o : i # j => o[i] # o[j]}

\* `**self._new_widget_state`: self[k] for each k of keys(), in the order
\* `order`; the first exception ends it.
RECURSIVE UnpackWidgetState(_, _, _, _)
UnpackWidgetState(st, md, order, acc) ==
    IF order = <<>>
    THEN [exc |-> "", vals |-> acc, states |-> st]
    ELSE LET r == WStates_getitem(st, md, Head(order))
         IN  IF r.exc # ""
             THEN [exc |-> r.exc, vals |-> acc, states |-> r.states]
             ELSE UnpackWidgetState(r.states, md, Tail(order),
                                    (Head(order) :> r.value) @@ acc)

\* SessionState._merged_state: the set of its possible outcomes
\* [exc, merged, states].  WStates.keys() is a Python set, whose iteration
\* order is not fixed, so every order is possible.
merged_state(S) ==
    {LET u == UnpackWidgetState(S.states, S.widget_metadata, order, <<>>)
     IN  [exc |-> u.exc,
          merged |-> S.new_session_state @@ u.vals @@ S.old_state,
          states |-> u.states]
     : order \in Orders(DictKeys(S.states))}

\* SessionState.__getitem__: outcomes [exc, value, states].
SessionState_getitem(S, key) ==
    {IF m.exc # ""
     THEN [exc |-> m.exc, value |-> PyNone, states |-> m.states]
     ELSE IF key \notin DOMAIN m.merged
     THEN [exc |-> "KeyError", value |-> PyNone, states |-> m.states]
     ELSE [exc |-> "", value |-> m.merged[key], states |-> m.states]
     : m \in merged_state(S)}

\* Mapping.__contains__ of SessionState: outcomes [exc, value, states],
\* value a boolean.
SessionState_contains(S, key) ==
    {[exc |-> IF g.exc = "KeyError" THEN "" ELSE g.exc,
      value |-> (g.exc = ""), states |-> g.states]
     : g \in SessionState_getitem(S, key)}

\* SessionState.filtered_state: outcomes [exc, filtered, states]; the items
\* of _merged_state whose key does not start with the prefix.
filtered_state(S) ==
    {[exc |-> m.exc,
      filtered |-> IF m.exc # "" THEN <<>>
                   ELSE [k \in {j \in DOMAIN m.merged :
                                   ~StartsWith(j, GENERATED_WIDGET_KEY_PREFIX)}
                           |-> m.merged[k]],
      states |-> m.states]
     : m \in merged_state(S)}

\* Mutant: a push only when the assigned value differs from the committed one.
is_new_state_value_by_equality(S, key) ==
    /\ key \in DOMAIN S.new_session_state
    /\ (key \in DOMAIN S.old_state => S.old_state[key] # S.new_session_state[key])

\* SessionState.is_new_state_value
is_new_state_value(S, key) == key \in DOMAIN S.new_session_state

\* dict without key k
Without(f, k) == [x \in DOMAIN f \ {k} |-> f[x]]

\* SessionState.compact_state: [exc, old_state, new_session_state, states].
RECURSIVE CompactLoop(_, _, _, _)
CompactLoop(st, md, old, i) ==
    IF i > Len(st)
    THEN [exc |-> "", old_state |-> old, states |-> st]
    ELSE LET r == WStates_getitem(st, md, st[i].k)
         IN  IF r.exc # ""
             THEN [exc |-> r.exc, old_state |-> old, states |-> r.states]
             ELSE CompactLoop(r.states, md, (st[i].k :> r.value) @@ old, i + 1)

\* Mutant: the widget values are folded after the script's values.
compact_state_widget_wins(S) ==
    LET l == CompactLoop(S.states, S.widget_metadata,
                         S.new_session_state @@ S.old_state, 1)
    IN  IF l.exc # ""
        THEN [exc |-> l.exc, old_state |-> l.old_state,
              new_session_state |-> S.new_session_state, states |-> l.states]
        ELSE [exc |-> "", old_state |-> l.old_state,
              new_session_state |-> <<>>, states |-> <<>>]

compact_state(S) ==
    LET l == CompactLoop(S.states, S.widget_metadata, S.old_state, 1)
    IN  IF l.exc # ""
        THEN [exc |-> l.exc, old_state |-> l.old_state,
              new_session_state |-> S.new_session_state, states |-> l.states]
        ELSE LET c == WStates_clear(l.states, S.widget_metadata)
             IN  [exc |-> c.exc,
                  old_state |-> S.new_session_state @@ l.old_state,
                  new_session_state |-> <<>>,
                  states |-> c.states]

\* Mutant: no check against the widgets of this run.
SessionState_setitem_unchecked(S, ids_this_run, key, value) ==
    [exc |-> "", new_session_state |-> (key :> value) @@ S.new_session_state]

\* SessionState.__setitem__: [exc, new_session_state].
SessionState_setitem(S, ids_this_run, key, value) ==
    IF key \in ids_this_run
    THEN [exc |-> "StreamlitAPIException", new_session_state |-> S.new_session_state]
    ELSE [exc |-> "", new_session_state |-> (key :> value) @@ S.new_session_state]

\* Mutant: the committed value survives the deletion.
SessionState_delitem_keeps_old_state(S, key) ==
    IF /\ key \notin DOMAIN S.new_session_state
       /\ key \notin DOMAIN S.old_state
       /\ ~WStates_contains(S.states, S.widget_metadata, key).value
    THEN [exc |-> "KeyError", old_state |-> S.old_state,
          new_session_state |-> S.new_session_state, states |-> S.states]
    ELSE [exc |-> "", old_state |-> S.old_state,
          new_session_state |-> Without(S.new_session_state, key),
          states |-> DictDel(S.states, key)]

\* SessionState.__delitem__: [exc, old_state, new_session_state, states].
SessionState_delitem(S, key) ==
    LET unchanged(e, st) ==
            [exc |-> e, old_state |-> S.old_state,
             new_session_state |-> S.new_session_state, states |-> st]
        c1 == WStates_contains(S.states, S.widget_metadata, key)
    IN  IF key \in {"_new_session_state", "_new_widget_state", "_old_state"}
        THEN unchanged("KeyError", S.states)
        ELSE IF key \in DOMAIN S.new_session_state
        THEN \* the `or` does not evaluate `key in self._new_widget_state`
             IF c1.exc # ""
             THEN [exc |-> c1.exc, old_state |-> S.old_state,
                   new_session_state |-> Without(S.new_session_state, key),
                   states |-> c1.states]
             ELSE [exc |-> "", old_state |-> Without(S.old_state, key),
                   new_session_state |-> Without(S.new_session_state, key),
                   states |-> IF c1.value THEN DictDel(c1.states, key) ELSE c1.states]
        ELSE IF c1.exc # ""
        THEN unchanged(c1.exc, c1.states)
        ELSE IF ~c1.value /\ key \notin DOMAIN S.old_state
        THEN unchanged("KeyError", c1.states)
        ELSE [exc |-> "", old_state |-> Without(S.old_state, key),
              new_session_state |-> S.new_session_state,
              states |-> IF c1.value THEN DictDel(c1.states, key) ELSE c1.states]

\* SessionState.set_from_proto: every WidgetState of the message becomes a
\* Serialized item.
RECURSIVE set_from_proto(_, _)
set_from_proto(st, widgets) ==
    IF widgets = <<>> THEN st
    ELSE set_from_proto(DictSet(st, Head(widgets).id, Serialized(Head(widgets))),
                        Tail(widgets))

\* SessionState._widget_changed: [exc, changed, states].
widget_changed(st, md, old, widget_id) ==
    LET new_value == WStates_get(st, md, widget_id)
        old_value == IF widget_id \in DOMAIN old THEN old[widget_id] ELSE PyNone
    IN  [exc |-> new_value.exc, changed |-> new_value.value # old_value,
         states |-> new_value.states]

\* The comprehension over the outcomes rs of _widget_changed for the
\* entries of st, in order: the first exception ends it.
ChangedResult(st, rs) ==
    LET failed == FirstIndex(rs, LAMBDA r : r.exc # "")
        reached(i) == failed = 0 \/ i < failed
        kept == SelectSeq([i \in DOMAIN st |-> [i |-> i, k |-> st[i].k]],
                          LAMBDA e : reached(e.i) /\ rs[e.i].changed)
    IN  [exc |-> IF failed = 0 THEN "" ELSE rs[failed].exc,
         changed |-> [i \in DOMAIN kept |-> kept[i].k],
         states |-> [i \in DOMAIN st |-> IF reached(i) THEN rs[i].states[i] ELSE st[i]]]

\* changed_widget_ids = [wid for wid in self._new_widget_state
\*                       if self._widget_changed(wid)]: [exc, changed, states].
\* _widget_changed(wid) reads and writes the entry of wid only.
ChangedLoop(st, md, old) ==
    ChangedResult(st, [i \in DOMAIN st |-> widget_changed(st, md, old, st[i].k)])

\* The callbacks of the model, by name: what the function does with
\* st.session_state.  "on_change" writes nothing.
CallbackBody(callback) ==
    CASE callback = "del_x" -> [op |-> "del", key |-> "x"]
      [] callback = "del_y" -> [op |-> "del", key |-> "y"]
      [] callback = "set_x" -> [op |-> "set", key |-> "x", value |-> PyStr("b")]
      [] callback = "set_y" -> [op |-> "set", key |-> "y", value |-> PyStr("b")]
      [] OTHER -> [op |-> "pass"]

\* callback(*args, **kwargs): [exc, old_state, new_session_state, states].
InvokeCallback(S, ids_this_run, callback) ==
    LET body == CallbackBody(callback)
    IN  CASE body.op = "del" -> SessionState_delitem(S, body.key)
          [] body.op = "set" ->
                 [exc |-> SessionState_setitem(S, ids_this_run, body.key, body.value).exc,
                  old_state |-> S.old_state,
                  new_session_state |->
                      SessionState_setitem(S, ids_this_run, body.key, body.value)
                          .new_session_state,
                  states |-> S.states]
          [] OTHER -> [exc |-> "", old_state |-> S.old_state,
                       new_session_state |-> S.new_session_state, states |-> S.states]

\* S with the layers of the outcome r.
WithLayers(S, r) ==
    [S EXCEPT !.old_state = r.old_state, !.new_session_state = r.new_session_state,
              !.states = r.states]

\* WStates.call_callback for each id of `changed`, in order:
\* [exc, calls, old_state, new_session_state, states], calls the ids whose
\* callback was invoked.  The assert on the metadata of an id raises
\* AssertionError; that and an exception of a callback end the loop.
RECURSIVE CallLoop(_, _, _, _)
CallLoop(S, ids_this_run, changed, calls) ==
    IF changed = <<>>
    THEN [exc |-> "", calls |-> calls, old_state |-> S.old_state,
          new_session_state |-> S.new_session_state, states |-> S.states]
    ELSE IF Head(changed) \notin DOMAIN S.widget_metadata
    THEN [exc |-> "AssertionError", calls |-> calls, old_state |-> S.old_state,
          new_session_state |-> S.new_session_state, states |-> S.states]
    ELSE IF S.widget_metadata[Head(changed)].callback = "None"
    THEN CallLoop(S, ids_this_run, Tail(changed), calls)
    ELSE CHOOSE out \in
             {IF r.exc # ""
              THEN [calls |-> Append(calls, Head(changed))] @@ r
              ELSE CallLoop(WithLayers(S, r), ids_this_run, Tail(changed),
                            Append(calls, Head(changed))) :
                r \in {InvokeCallback(S, ids_this_run,
                                      S.widget_metadata[Head(changed)].callback)}} : TRUE

\* The second loop of call_callbacks, over the changed ids c found.
CallChanged(S, ids_this_run, c) ==
    IF c.exc # ""
    THEN [exc |-> c.exc, calls |-> <<>>, old_state |-> S.old_state,
          new_session_state |-> S.new_session_state, states |-> c.states]
    ELSE CallLoop([S EXCEPT !.states = c.states], ids_this_run, c.changed, <<>>)

\* Mutant: whether an id has changed is decided when its turn comes, after
\* the callbacks before it have run.
RECURSIVE lazy_loop(_, _, _, _)
lazy_loop(S, ids_this_run, keys, calls) ==
    IF keys = <<>>
    THEN [exc |-> "", calls |-> calls, old_state |-> S.old_state,
          new_session_state |-> S.new_session_state, states |-> S.states]
    ELSE LET w == widget_changed(S.states, S.widget_metadata, S.old_state, Head(keys))
             S1 == [S EXCEPT !.states = w.states]
         IN  IF w.exc # ""
             THEN [exc |-> w.exc, calls |-> calls, old_state |-> S.old_state,
                   new_session_state |-> S.new_session_state, states |-> w.states]
             ELSE IF ~w.changed
             THEN lazy_loop(S1, ids_this_run, Tail(keys), calls)
             ELSE LET r == CallLoop(S1, ids_this_run, <<Head(keys)>>, <<>>)
                  IN  IF r.exc # ""
                      THEN [r EXCEPT !.calls = calls \o r.calls]
                      ELSE lazy_loop(WithLayers(S1, r), ids_this_run, Tail(keys),
                                     calls \o r.calls)
call_callbacks_lazy(S, ids_this_run) ==
    lazy_loop(S, ids_this_run, [i \in DOMAIN S.states |-> S.states[i].k], <<>>)

\* SessionState.call_callbacks:
\* [exc, calls, old_state, new_session_state, states].
call_callbacks(S, ids_this_run) ==
    CHOOSE out \in
        {CallChanged(S, ids_this_run, c) :
            c \in {ChangedLoop(S.states, S.widget_metadata, S.old_state)}} : TRUE

\* Whether the metadata of id has the trigger value type.
IsTrigger(md, id) == id \in DOMAIN md /\ md[id].value_type = "trigger_value"

\* Mutant: only the committed triggers are reset.
reset_triggers_committed_only(S) ==
    [old_state |-> [k \in DOMAIN S.old_state |->
                       IF IsTrigger(S.widget_metadata, k) THEN PyBool(FALSE)
                       ELSE S.old_state[k]],
     states |-> S.states]

\* Mutant: every value is reset, whatever the metadata of its id.
reset_triggers_every_id(S) ==
    [old_state |-> [k \in DOMAIN S.old_state |-> PyBool(FALSE)],
     states |-> [i \in DOMAIN S.states |->
                    [k |-> S.states[i].k, item |-> Value(PyBool(FALSE))]]]

\* SessionState.reset_triggers: [old_state, states].
reset_triggers(S) ==
    [old_state |-> [k \in DOMAIN S.old_state |->
                       IF IsTrigger(S.widget_metadata, k) THEN PyBool(FALSE)
                       ELSE S.old_state[k]],
     states |-> [i \in DOMAIN S.states |->
                    IF IsTrigger(S.widget_metadata, S.states[i].k)
                    THEN [k |-> S.states[i].k, item |-> Value(PyBool(FALSE))]
                    ELSE S.states[i]]]

\* Mutant: nothing is removed.
cull_nonexistent_keeps_all(st, widget_ids) == st

\* WStates.cull_nonexistent (SessionState.cull_nonexistent delegates to it):
\* the comprehension is over the dict `states` itself, so no item is read
\* through __getitem__.
cull_nonexistent(st, widget_ids) == SelectSeq(st, LAMBDA e : e.k \in widget_ids)

\* Mutant: the ids removed lose their committed value and their metadata
\* as well.
SessionState_cull_nonexistent_everywhere(S, widget_ids) ==
    [S EXCEPT !.states = cull_nonexistent(S.states, widget_ids),
              !.old_state = [k \in DOMAIN S.old_state
                                   \ (DictKeys(S.states) \ widget_ids) |-> S.old_state[k]],
              !.widget_metadata = [k \in DOMAIN S.widget_metadata
                                   \ (DictKeys(S.states) \ widget_ids) |->
                                       S.widget_metadata[k]]]

\* SessionState.cull_nonexistent: the session state after the call.
SessionState_cull_nonexistent(S, widget_ids) ==
    [S EXCEPT !.states = cull_nonexistent(S.states, widget_ids)]

\* SessionState.set_metadata
set_metadata(md, widget_metadata) == (widget_metadata.id :> widget_metadata) @@ md

(***************************************************************************)
(* Widgets.  A widget call is modelled by what it hands to                 *)
(* register_widget: the element type, the filled proto and the             *)
(* deserializer closure.                                                   *)
(***************************************************************************)
OPTIONS == <<"a", "b", "c">>

\* st.selectbox(label, options, index)
selectbox(options, index) ==
    [element_type |-> "selectbox",
     element_proto |-> [default |-> index, options |-> options],
     deserializer |-> deserialize_select_box(options, index),
     serializer |-> serialize_select_box(options)]

\* st.select_slider(label, options) with value=None: slider_value = [0].
select_slider(options) ==
    [element_type |-> "slider",
     element_proto |-> [default |-> <<0>>, options |-> options],
     deserializer |-> deserialize_select_slider(options, <<0>>, FALSE),
     serializer |-> serialize_select_slider(options, FALSE)]

\* st.select_slider(label, options, value=(lo, hi)), lo and hi options:
\* slider_value is the two indexes, the smaller first.
select_slider_range(options, lo, hi) ==
    LET start == index_(options, PyStr(lo))
        end == index_(options, PyStr(hi))
        slider_value == IF start > end THEN <<end, start>> ELSE <<start, end>>
    IN  [element_type |-> "slider",
         element_proto |-> [default |-> slider_value, options |-> options],
         deserializer |-> deserialize_select_slider(options, slider_value, TRUE),
         serializer |-> serialize_select_slider(options, TRUE)]

\* st.button(label)
button ==
    [element_type |-> "button",
     element_proto |-> [default |-> FALSE],
     deserializer |-> deserialize_button,
     serializer |-> serialize_button]

\* The arguments st.file_uploader passes to register_widget.
file_uploader ==
    [element_type |-> "file_uploader",
     element_proto |-> [multiple_files |-> FALSE],
     deserializer |-> deserialize_file_uploader,
     serializer |-> serialize_file_uploader]

\* get_report_ctx(): None outside a ReportThread.
ReportContext == [t |-> "ctx", session_id |-> "session"]

\* UploadedFileManager.get_files: the records, of those stored for the
\* widget, whose id is among file_ids.  `files` is the list of the ids of
\* the records stored, oldest first.
get_files(files, file_ids) ==
    SelectSeq(files, LAMBDA f : \E i \in DOMAIN file_ids : file_ids[i] = f)

\* UploadedFileManager.remove_orphaned_files: the list stored afterwards; a
\* record stays when its id is active or newer than newest_file_id.
remove_orphaned_files(files, newest_file_id, active_file_ids) ==
    SelectSeq(files, LAMBDA f : \/ \E i \in DOMAIN active_file_ids : active_file_ids[i] = f
                                \/ f > newest_file_id)

\* Mutant: the whole widget value is taken for the active ids.
_get_file_recs_all_ids(ctx, files, widget_id, widget_value) ==
    IF widget_value.t = "None" \/ ctx.t = "None" \/ Len(widget_value.l) = 0
    THEN [file_recs |-> <<>>, calls |-> <<>>, files |-> files]
    ELSE [file_recs |-> get_files(files, widget_value.l),
          calls |-> <<[fn |-> "get_files", session_id |-> ctx.session_id,
                       widget_id |-> widget_id, file_ids |-> widget_value.l],
                      [fn |-> "remove_orphaned_files", session_id |-> ctx.session_id,
                       widget_id |-> widget_id, newest_file_id |-> widget_value.l[1],
                       active_file_ids |-> widget_value.l]>>,
          files |-> remove_orphaned_files(files, widget_value.l[1], widget_value.l)]

\* FileUploaderMixin._get_file_recs: [file_recs, calls, files], calls the
\* calls made to ctx.uploaded_file_mgr, in order, and files what it stores
\* afterwards.  widget_value is None or a list.
_get_file_recs(ctx, files, widget_id, widget_value) ==
    IF widget_value.t = "None"
    THEN [file_recs |-> <<>>, calls |-> <<>>, files |-> files]
    ELSE IF ctx.t = "None"
    THEN [file_recs |-> <<>>, calls |-> <<>>, files |-> files]
    ELSE IF Len(widget_value.l) = 0
    THEN [file_recs |-> <<>>, calls |-> <<>>, files |-> files]
    ELSE LET newest_file_id == widget_value.l[1]
             active_file_ids == Tail(widget_value.l)
         IN  [file_recs |-> get_files(files, active_file_ids),
              calls |-> <<[fn |-> "get_files", session_id |-> ctx.session_id,
                           widget_id |-> widget_id, file_ids |-> active_file_ids],
                          [fn |-> "remove_orphaned_files", session_id |-> ctx.session_id,
                           widget_id |-> widget_id, newest_file_id |-> newest_file_id,
                           active_file_ids |-> active_file_ids]>>,
              files |-> remove_orphaned_files(files, newest_file_id, active_file_ids)]

\* hash((element_type, element_proto.SerializeToString())): a function of
\* the element type and of the proto's fields.
PyHash(element_type, element_proto) ==
    CASE element_type = "selectbox" ->
             100 + 10 * Len(element_proto.options) + element_proto.default
      [] element_type = "slider" ->
             200 + 10 * Len(element_proto.options) + element_proto.default[1]

get_widget_id(element_type, element_proto, user_key) ==
    IF user_key.t # "None"
    THEN user_key.s
    ELSE GENERATED_WIDGET_KEY_PREFIX \o "-" \o ToString(PyHash(element_type, element_proto))

\* ctx.widget_ids_this_run.add(widget_id): whether the id was added, and
\* the set afterwards.
StringSet_add(ids, widget_id) ==
    [added |-> widget_id \notin ids, ids |-> ids \cup {widget_id}]

\* Mutant: a widget id is never taken for a duplicate.
is_duplicate_never(added) == FALSE

\* `if not added: raise DuplicateWidgetID(...)`
is_duplicate(added) == ~added

\* Mutant: the duplicate is found after its metadata has been set.
raise_DuplicateWidgetID_after_set_metadata(S, ids, metadata) ==
    [exc |-> "DuplicateWidgetID", value |-> PyNone, flag |-> FALSE,
     old_state |-> S.old_state, states |-> S.states,
     widget_metadata |-> set_metadata(S.widget_metadata, metadata), ids |-> ids]

\* `raise DuplicateWidgetID(...)` of register_widget: the outcome of the
\* call, raised before the WidgetMetadata of the call is made and set.
raise_DuplicateWidgetID(S, ids, metadata) ==
    [exc |-> "DuplicateWidgetID", value |-> PyNone, flag |-> FALSE,
     old_state |-> S.old_state, states |-> S.states,
     widget_metadata |-> S.widget_metadata, ids |-> ids]

\* Mutant: the default value is written whether or not a value exists.
maybe_set_state_value_always(old_state, contained, widget_id, deserializer) ==
    (widget_id :> Call(deserializer, PyNone)) @@ old_state

\* SessionState.maybe_set_state_value, given the outcome `contained` of
\* `widget_id in self`: _old_state afterwards.
maybe_set_state_value(old_state, contained, widget_id, deserializer) ==
    IF ~contained
    THEN (widget_id :> Call(deserializer, PyNone)) @@ old_state
    ELSE old_state

\* register_widget inside a ReportThread: outcomes
\* [exc, value, flag, old_state, states, widget_metadata, ids].
register_widget(S, ids_this_run, w, user_key, on_change_handler) ==
    LET widget_id == get_widget_id(w.element_type, w.element_proto, user_key)
        a == StringSet_add(ids_this_run, widget_id)
        metadata == WidgetMetadata(widget_id, w.deserializer, w.serializer,
                                   element_type_to_value_type[w.element_type],
                                   on_change_handler)
        md == set_metadata(S.widget_metadata, metadata)
        S1 == [S EXCEPT !.widget_metadata = md]
        out(e, v, old, st) ==
            [exc |-> e, value |-> v, flag |-> is_new_state_value(S, widget_id),
             old_state |-> old, states |-> st, widget_metadata |-> md, ids |-> a.ids]
    IN  IF is_duplicate(a.added)
        THEN {raise_DuplicateWidgetID(S, a.ids, metadata)}
        ELSE UNION {
               \* maybe_set_state_value
               IF c.exc # ""
               THEN {out(c.exc, PyNone, S.old_state, c.states)}
               ELSE LET old == maybe_set_state_value(S.old_state, c.value, widget_id,
                                                     metadata.deserializer)
                        S2 == [S1 EXCEPT !.old_state = old, !.states = c.states]
                    IN  \* get_value_for_registration
                        {IF g.exc = "KeyError"
                         THEN out("", Call(w.deserializer, PyNone), old, g.states)
                         ELSE out(g.exc, g.value, old, g.states)
                         : g \in SessionState_getitem(S2, widget_id)}
               : c \in SessionState_contains(S1, widget_id)}

\* Mutant: no early return without a ReportContext.
register_widget_registers(S, ids_this_run, w, user_key, on_change_handler) ==
    register_widget(S, ids_this_run, w, user_key, on_change_handler)

\* register_widget outside a ReportThread (get_report_ctx() is None): the
\* same outcomes record; S and ids_this_run are the state of a session
\* and of its run, which the bare call has no access to.
register_widget_bare(S, ids_this_run, w, user_key, on_change_handler) ==
    {[exc |-> "", value |-> Call(w.deserializer, PyNone), flag |-> FALSE,
      old_state |-> S.old_state, states |-> S.states,
      widget_metadata |-> S.widget_metadata, ids |-> ids_this_run]}

(***************************************************************************)
(* coalesce_widget_states.  A WidgetStates message is the sequence of its  *)
(* `widgets`; the ids of one message are distinct.                         *)
(***************************************************************************)
\* states_by_id = {wstate.id: wstate for wstate in new_states.widgets}
RECURSIVE StatesById(_, _)
StatesById(widgets, acc) ==
    IF widgets = <<>> THEN acc
    ELSE StatesById(Tail(widgets), DictSet(acc, Head(widgets).id, Head(widgets)))

\* `old_state.WhichOneof("value") == "trigger_value" and old_state.trigger_value`
IsTrueTrigger(wstate) == wstate.which = "trigger_value" /\ wstate.value.b

\* The loop over old_states.widgets.
RECURSIVE CoalesceLoop(_, _)
CoalesceLoop(old_widgets, states_by_id) ==
    IF old_widgets = <<>> THEN states_by_id
    ELSE LET old_state == Head(old_widgets)
             found == old_state.id \in DictKeys(states_by_id)
         IN  IF /\ IsTrueTrigger(old_state)
                /\ found
                /\ DictItem(states_by_id, old_state.id).which = "trigger_value"
             THEN CoalesceLoop(Tail(old_widgets),
                               DictSet(states_by_id, old_state.id, old_state))
             ELSE CoalesceLoop(Tail(old_widgets), states_by_id)

\* Mutant: the latest WidgetStates win, triggers included.
coalesce_latest_wins(old_states, new_states) == new_states

\* Mutant: the entries that only old_states has are kept.
coalesce_keeps_old(old_states, new_states) ==
    LET states_by_id == CoalesceLoop(old_states, StatesById(new_states, <<>>))
    IN  [i \in DOMAIN states_by_id |-> states_by_id[i].item]
        \o SelectSeq(old_states, LAMBDA w : w.id \notin DictKeys(states_by_id))

\* Mutant: a true trigger of old_states replaces the entry of new_states
\* whatever its value kind.
RECURSIVE OverwriteLoop(_, _)
OverwriteLoop(old_widgets, states_by_id) ==
    IF old_widgets = <<>> THEN states_by_id
    ELSE LET old_state == Head(old_widgets)
         IN  IF IsTrueTrigger(old_state) /\ old_state.id \in DictKeys(states_by_id)
             THEN OverwriteLoop(Tail(old_widgets),
                                DictSet(states_by_id, old_state.id, old_state))
             ELSE OverwriteLoop(Tail(old_widgets), states_by_id)

coalesce_ignores_kind(old_states, new_states) ==
    LET states_by_id == OverwriteLoop(old_states, StatesById(new_states, <<>>))
    IN  [i \in DOMAIN states_by_id |-> states_by_id[i].item]

\* The WidgetStates that coalesce_widget_states returns.
coalesce_widget_states(old_states, new_states) ==
    LET states_by_id == CoalesceLoop(old_states, StatesById(new_states, <<>>))
    IN  [i \in DOMAIN states_by_id |-> states_by_id[i].item]

(***************************************************************************)
(* The state: one SessionState, the ReportContext's widget_ids_this_run,   *)
(* and what the last operation returned or raised.  `cw` holds one call    *)
(* of coalesce_widget_states: its arguments and, once made, its result.    *)
(* `press` is a history variable: for each user key, how far the last      *)
(* true trigger that the client sent for it has got.                       *)
(***************************************************************************)
VARIABLES _old_state, _new_session_state, states, widget_metadata,
          widget_ids_this_run, ret, nops, cw, press, snapshot

session_vars == <<_old_state, _new_session_state, states, widget_metadata,
                  widget_ids_this_run, ret, nops>>
vars == <<session_vars, cw, press, snapshot>>

Self ==
    [old_state |-> _old_state, new_session_state |-> _new_session_state,
     states |-> states, widget_metadata |-> widget_metadata]

\* Inputs of the operations.
UserKeys == {"x"}
ScriptValues == {PyStr("b")}
Widgets == {selectbox(OPTIONS, 1), select_slider(OPTIONS)}
KeylessWidgets == {selectbox(OPTIONS, 1)}
WidgetCalls ==
    {[w |-> w, user_key |-> PyStr(k), on_change |-> "None"] : w \in Widgets, k \in UserKeys}
    \cup {[w |-> w, user_key |-> PyNone, on_change |-> "None"] : w \in KeylessWidgets}
WidgetIds ==
    {get_widget_id(c.w.element_type, c.w.element_proto, c.user_key) : c \in WidgetCalls}
ClientValues ==
    {[which |-> "int_value", value |-> PyInt(2)],
     [which |-> "double_array_value", value |-> ArrayMsg(<<2>>)]}
ClientStates == {WidgetStateProto(id, v.which, v.value) : id \in WidgetIds, v \in ClientValues}
\* WidgetStates messages: one entry, or two entries for different widgets.
WidgetStatesMessages ==
    {<<a>> : a \in ClientStates}
    \cup {<<e[1], e[2]>> : e \in {p \in ClientStates \X ClientStates : p[1].id # p[2].id}}

Ret(op, key, exc, value, flag) ==
    [op |-> op, key |-> key, exc |-> exc, value |-> value, flag |-> flag]

(***************************************************************************)
(* The history of a press.  "pressed": the client's WidgetStates carried   *)
(* a true trigger for the key; "read": a registration of the key has since *)
(* returned True; "reset": reset_triggers has run in the run that read it; *)
(* "spent": compact_state has then completed.  "none": nothing is          *)
(* followed, also when the run that read the press ends otherwise, or once *)
(* the script of a later run assigns the key itself.                       *)
(***************************************************************************)
PressIngest(pr, widgets) ==
    [k \in DOMAIN pr |->
        IF \E i \in DOMAIN widgets : widgets[i].id = k /\ IsTrueTrigger(widgets[i])
        THEN "pressed" ELSE pr[k]]

PressRegister(pr, widget_id, r) ==
    [k \in DOMAIN pr |->
        IF k = widget_id /\ pr[k] = "pressed" /\ r.exc = "" /\ r.value = PyBool(TRUE)
        THEN "read" ELSE pr[k]]

PressReset(pr) ==
    [k \in DOMAIN pr |-> IF pr[k] = "read" THEN "reset" ELSE pr[k]]

PressCompact(pr, exc) ==
    [k \in DOMAIN pr |->
        IF pr[k] = "reset" /\ exc = "" THEN "spent"
        ELSE IF pr[k] \in {"read", "reset"} THEN "none"
        ELSE pr[k]]

PressNewRun(pr) ==
    [k \in DOMAIN pr |-> IF pr[k] \in {"read", "reset"} THEN "none" ELSE pr[k]]

PressSet(pr, key, exc) ==
    [k \in DOMAIN pr |->
        IF k = key /\ exc = "" /\ pr[k] = "spent" THEN "none" ELSE pr[k]]

\* The history of the client's WidgetStates: `snapshot` has, by id, the
\* WidgetState protos given to set_from_proto since the run began.
SnapshotIngest(sn, widgets) ==
    [k \in {widgets[i].id : i \in DOMAIN widgets} |->
        widgets[CHOOSE i \in DOMAIN widgets :
                   widgets[i].id = k /\ \A j \in DOMAIN widgets : widgets[j].id = k => j <= i]]
    @@ sn

NoCall == [old_states |-> <<>>, new_states |-> <<>>, coalesced |-> <<>>, done |-> FALSE]

InitSession ==
    /\ _old_state = <<>>
    /\ _new_session_state = <<>>
    /\ states = <<>>
    /\ widget_metadata = <<>>
    /\ widget_ids_this_run = {}
    /\ ret = Ret("init", "", "", PyNone, FALSE)
    /\ nops = 0

Init ==
    /\ InitSession /\ cw = NoCall
    /\ press = [k \in UserKeys |-> "none"] /\ snapshot = <<>>

\* value = st.session_state[key]
GetItem(key) ==
    /\ nops < MaxOps
    /\ \E g \in SessionState_getitem(Self, key) :
          /\ states' = g.states
          /\ ret' = Ret("get", key, g.exc, g.value, FALSE)
    /\ nops' = nops + 1 /\ UNCHANGED <<cw, press, snapshot>>
    /\ UNCHANGED <<_old_state, _new_session_state, widget_metadata, widget_ids_this_run>>

\* st.session_state[key] = value
SetItem(key, value) ==
    /\ nops < MaxOps
    /\ LET r == SessionState_setitem(Self, widget_ids_this_run, key, value)
       IN  /\ _new_session_state' = r.new_session_state
           /\ ret' = Ret("set", key, r.exc, value, FALSE)
           /\ press' = PressSet(press, key, r.exc)
    /\ nops' = nops + 1 /\ UNCHANGED <<cw, snapshot>>
    /\ UNCHANGED <<_old_state, states, widget_metadata, widget_ids_this_run>>

\* del st.session_state[key]
DelItem(key) ==
    /\ nops < MaxOps
    /\ LET r == SessionState_delitem(Self, key)
       IN  /\ _old_state' = r.old_state
           /\ _new_session_state' = r.new_session_state
           /\ states' = r.states
           /\ ret' = Ret("del", key, r.exc, PyNone, FALSE)
    /\ nops' = nops + 1 /\ UNCHANGED <<cw, press, snapshot>>
    /\ UNCHANGED <<widget_metadata, widget_ids_this_run>>

\* A widget call of the script: register_widget.
RegisterWidget(c) ==
    /\ nops < MaxOps
    /\ \E r \in register_widget(Self, widget_ids_this_run, c.w, c.user_key, c.on_change) :
          /\ _old_state' = r.old_state
          /\ states' = r.states
          /\ widget_metadata' = r.widget_metadata
          /\ widget_ids_this_run' = r.ids
          /\ ret' = Ret("register",
                        get_widget_id(c.w.element_type, c.w.element_proto, c.user_key),
                        r.exc, r.value, r.flag)
          /\ press' = PressRegister(press,
                          get_widget_id(c.w.element_type, c.w.element_proto, c.user_key), r)
    /\ nops' = nops + 1 /\ UNCHANGED <<cw, snapshot>>
    /\ UNCHANGED _new_session_state

\* session_state.compact_state()
CompactState ==
    /\ nops < MaxOps
    /\ LET r == compact_state(Self)
       IN  /\ _old_state' = r.old_state
           /\ _new_session_state' = r.new_session_state
           /\ states' = r.states
           /\ ret' = Ret("compact", "", r.exc, PyNone, FALSE)
           /\ press' = PressCompact(press, r.exc)
    /\ nops' = nops + 1 /\ UNCHANGED <<cw, snapshot>>
    /\ UNCHANGED <<widget_metadata, widget_ids_this_run>>

\* session_state.set_from_proto(widget_states): the client's WidgetStates,
\* set before the script of a run registers its widgets.
SetFromProto(widgets) ==
    /\ nops < MaxOps
    /\ widget_ids_this_run = {}
    /\ states' = set_from_proto(states, widgets)
    /\ ret' = Ret("set_from_proto", "", "", PyNone, FALSE)
    /\ press' = PressIngest(press, widgets)
    /\ snapshot' = SnapshotIngest(snapshot, widgets)
    /\ nops' = nops + 1 /\ UNCHANGED cw
    /\ UNCHANGED <<_old_state, _new_session_state, widget_metadata, widget_ids_this_run>>

\* A new script run starts: its ReportContext has seen no widget id yet.
NewRun ==
    /\ nops < MaxOps
    /\ widget_ids_this_run' = {}
    /\ ret' = Ret("new_run", "", "", PyNone, FALSE)
    /\ press' = PressNewRun(press)
    /\ snapshot' = <<>>
    /\ nops' = nops + 1 /\ UNCHANGED cw
    /\ UNCHANGED <<_old_state, _new_session_state, states, widget_metadata>>

\* session_state.reset_triggers()
ResetTriggers ==
    /\ nops < MaxOps
    /\ LET r == reset_triggers(Self)
       IN  /\ _old_state' = r.old_state
           /\ states' = r.states
    /\ ret' = Ret("reset_triggers", "", "", PyNone, FALSE)
    /\ press' = PressReset(press)
    /\ nops' = nops + 1 /\ UNCHANGED <<cw, snapshot>>
    /\ UNCHANGED <<_new_session_state, widget_metadata, widget_ids_this_run>>

\* session_state.call_callbacks(); the ids whose callback was invoked, in
\* the order of the invocations, are the value of `ret`.
CallCallbacks ==
    /\ nops < MaxOps
    /\ LET r == call_callbacks(Self, widget_ids_this_run)
       IN  /\ _old_state' = r.old_state
           /\ _new_session_state' = r.new_session_state
           /\ states' = r.states
           /\ ret' = Ret("call_callbacks", "", r.exc, [t |-> "calls", ids |-> r.calls], FALSE)
    /\ nops' = nops + 1 /\ UNCHANGED <<cw, press, snapshot>>
    /\ UNCHANGED <<widget_metadata, widget_ids_this_run>>

\* session_state.as_widget_states(); the WidgetStates are the value of `ret`.
AsWidgetStates ==
    /\ nops < MaxOps
    /\ LET r == as_widget_states(states, widget_metadata)
       IN  ret' = Ret("as_widget_states", "", r.exc,
                      [t |-> "WidgetStates", widgets |-> r.widgets], FALSE)
    /\ nops' = nops + 1 /\ UNCHANGED <<cw, press, snapshot>>
    /\ UNCHANGED <<_old_state, _new_session_state, states, widget_metadata,
                   widget_ids_this_run>>

\* A widget call outside a ReportThread.
RegisterWidgetBare(c) ==
    /\ nops < MaxOps
    /\ \E r \in register_widget_bare(Self, widget_ids_this_run, c.w, c.user_key, c.on_change) :
          /\ _old_state' = r.old_state
          /\ states' = r.states
          /\ widget_metadata' = r.widget_metadata
          /\ widget_ids_this_run' = r.ids
          /\ ret' = Ret("register_bare",
                        get_widget_id(c.w.element_type, c.w.element_proto, c.user_key),
                        r.exc, r.value, r.flag)
    /\ nops' = nops + 1 /\ UNCHANGED <<cw, press, snapshot>>
    /\ UNCHANGED _new_session_state

\* session_state.cull_nonexistent(widget_ids); widget_ids is the value of
\* `ret`.
CullNonexistent(widget_ids) ==
    /\ nops < MaxOps
    /\ LET r == SessionState_cull_nonexistent(Self, widget_ids)
       IN  /\ _old_state' = r.old_state
           /\ _new_session_state' = r.new_session_state
           /\ states' = r.states
           /\ widget_metadata' = r.widget_metadata
    /\ ret' = Ret("cull_nonexistent", "", "", [t |-> "set", ids |-> widget_ids], FALSE)
    /\ nops' = nops + 1 /\ UNCHANGED <<cw, press, snapshot>>
    /\ UNCHANGED widget_ids_this_run

\* st.session_state.to_dict() (iter() and len() read the same
\* filtered_state); the dict is the value of `ret`.
ToDict ==
    /\ nops < MaxOps
    /\ \E f \in filtered_state(Self) :
          /\ states' = f.states
          /\ ret' = Ret("to_dict", "", f.exc, [t |-> "dict", d |-> f.filtered], FALSE)
    /\ nops' = nops + 1 /\ UNCHANGED <<cw, press, snapshot>>
    /\ UNCHANGED <<_old_state, _new_session_state, widget_metadata, widget_ids_this_run>>

Next ==
    \/ \E key \in UserKeys : GetItem(key)
    \/ \E key \in UserKeys, value \in ScriptValues : SetItem(key, value)
    \/ \E key \in UserKeys : DelItem(key)
    \/ \E c \in WidgetCalls : RegisterWidget(c)
    \/ CompactState
    \/ \E widgets \in WidgetStatesMessages : SetFromProto(widgets)
    \/ NewRun

Spec == Init /\ [][Next]_vars

(***************************************************************************)
(* A session whose script has a button: the runs of the script, the        *)
(* client's trigger values (also for an id that no widget has), and        *)
(* reset_triggers / compact_state.                                         *)
(***************************************************************************)
TriggerValue == PyBool(TRUE)
ButtonCalls == {[w |-> button, user_key |-> PyStr(k), on_change |-> "None"] : k \in UserKeys}
StaleIds == {"y"}
TriggerStates ==
    {WidgetStateProto(id, "trigger_value", PyBool(b)) :
        id \in UserKeys \cup StaleIds, b \in BOOLEAN}
TriggerMessages ==
    {<<a>> : a \in TriggerStates}
    \cup {<<e[1], e[2]>> : e \in {p \in TriggerStates \X TriggerStates : p[1].id # p[2].id}}

NextTriggers ==
    \/ \E key \in UserKeys : GetItem(key)
    \/ \E key \in UserKeys : SetItem(key, TriggerValue)
    \/ \E c \in ButtonCalls : RegisterWidget(c)
    \/ ResetTriggers
    \/ CompactState
    \/ \E widgets \in TriggerMessages : SetFromProto(widgets)
    \/ NewRun

SpecTriggers == Init /\ [][NextTriggers]_vars

(***************************************************************************)
(* A session whose script has a selectbox with an on_change callback: the  *)
(* client's WidgetStates, call_callbacks, as_widget_states, and widget     *)
(* calls made outside a ReportThread.                                      *)
(***************************************************************************)
CallbackCalls ==
    {[w |-> selectbox(OPTIONS, 1), user_key |-> PyStr(k), on_change |-> "None"] : k \in UserKeys}
    \cup {[w |-> selectbox(OPTIONS, 1), user_key |-> PyNone, on_change |-> "on_change"]}
CallbackStates ==
    {WidgetStateProto(id, "int_value", PyInt(i)) : id \in WidgetIds, i \in {1, 2}}
CallbackMessages ==
    {<<a>> : a \in CallbackStates}
    \cup {<<e[1], e[2]>> : e \in {p \in CallbackStates \X CallbackStates : p[1].id # p[2].id}}

NextCallbacks ==
    \/ \E key \in UserKeys, value \in ScriptValues : SetItem(key, value)
    \/ \E c \in CallbackCalls : RegisterWidget(c)
    \/ \E c \in CallbackCalls : RegisterWidgetBare(c)
    \/ CompactState
    \/ \E widgets \in CallbackMessages : SetFromProto(widgets)
    \/ NewRun
    \/ CallCallbacks
    \/ AsWidgetStates

SpecCallbacks == Init /\ [][NextCallbacks]_vars

(***************************************************************************)
(* A session whose script changes between runs: the widget under key "x"   *)
(* is a selectbox whose options, and so whose deserializer, differ from    *)
(* one version of the script to the other.  cull_nonexistent runs with     *)
(* any set of ids.                                                         *)
(***************************************************************************)
OPTIONS2 == <<"d", "e", "f">>
StoreCalls ==
    {[w |-> selectbox(o, 1), user_key |-> PyStr(k), on_change |-> cb] :
        o \in {OPTIONS, OPTIONS2}, k \in UserKeys, cb \in {"None", "on_change"}}
StoreIds == UserKeys \cup StaleIds
StoreStates == {WidgetStateProto(id, "int_value", PyInt(2)) : id \in StoreIds}
StoreMessages ==
    {<<a>> : a \in StoreStates}
    \cup {<<e[1], e[2]>> : e \in {p \in StoreStates \X StoreStates : p[1].id # p[2].id}}
NextStore ==
    \/ \E key \in UserKeys : GetItem(key)
    \/ \E c \in StoreCalls : RegisterWidget(c)
    \/ \E widgets \in StoreMessages : SetFromProto(widgets)
    \/ \E widget_ids \in SUBSET StoreIds : CullNonexistent(widget_ids)
    \/ CallCallbacks
    \/ CompactState
    \/ NewRun
SpecStore == Init /\ [][NextStore]_vars

(***************************************************************************)
(* A session whose script enumerates st.session_state between its          *)
(* assignments and widget calls.                                           *)
(***************************************************************************)
NextEnum ==
    \/ \E key \in UserKeys, value \in ScriptValues : SetItem(key, value)
    \/ \E c \in WidgetCalls : RegisterWidget(c)
    \/ CompactState
    \/ \E widgets \in WidgetStatesMessages : SetFromProto(widgets)
    \/ NewRun
    \/ ToDict
SpecEnum == Init /\ [][NextEnum]_vars

(***************************************************************************)
(* A session whose script has one st.file_uploader, under the key "x".     *)
(* cw holds the list of file ids the upload manager stores for the widget  *)
(* and, of the last call of st.file_uploader, the widget value, the calls  *)
(* made to the manager and what _get_file_recs returned.                   *)
(***************************************************************************)
MaxFileId == 2
FileIds == 1..MaxFileId
\* The lists the manager can store: ids are handed out in increasing order.
FileLists ==
    {l \in UNION {[1..n -> FileIds] : n \in 0..MaxFileId} :
        \A i \in DOMAIN l : \A j \in DOMAIN l : i < j => l[i] < l[j]}
\* The arrays the client can send: empty, or the newest file id the client
\* knows followed by the ids of its files, oldest first.
FileArrays ==
    {<<>>} \cup {<<p[1]>> \o p[2] :
                    p \in {q \in FileIds \X FileLists :
                              \A i \in DOMAIN q[2] : q[2][i] <= q[1]}}
UploadMessages ==
    {<<WidgetStateProto("x", "int_array_value", ArrayMsg(l))>> : l \in FileArrays}

InitUpload ==
    /\ InitSession
    /\ press = [k \in UserKeys |-> "none"] /\ snapshot = <<>>
    /\ \E files \in FileLists :
          cw = [files |-> files, widget_value |-> PyNone, calls |-> <<>>,
                file_recs |-> <<>>]

\* st.file_uploader(label, key="x"): register_widget, then _get_file_recs
\* with the value it returned.
FileUploader(ctx) ==
    /\ nops < MaxOps
    /\ \E r \in IF ctx.t = "None"
                THEN register_widget_bare(Self, widget_ids_this_run, file_uploader,
                                          PyStr("x"), "None")
                ELSE register_widget(Self, widget_ids_this_run, file_uploader,
                                     PyStr("x"), "None") :
          /\ _old_state' = r.old_state
          /\ states' = r.states
          /\ widget_metadata' = r.widget_metadata
          /\ widget_ids_this_run' = r.ids
          /\ press' = IF ctx.t = "None" THEN press ELSE PressRegister(press, "x", r)
          /\ IF r.exc # ""
             THEN /\ cw' = cw
                  /\ ret' = Ret("file_uploader", "x", r.exc, PyNone, FALSE)
             ELSE LET g == _get_file_recs(ctx, cw.files, "x", r.value)
                  IN  /\ cw' = [files |-> g.files, widget_value |-> r.value,
                                calls |-> g.calls, file_recs |-> g.file_recs]
                      /\ ret' = Ret("file_uploader", "x", "",
                                    IF Len(g.file_recs) = 0 THEN PyNone
                                    ELSE [t |-> "UploadedFile", rec |-> g.file_recs[1]],
                                    FALSE)
    /\ nops' = nops + 1 /\ UNCHANGED <<_new_session_state, snapshot>>

NextUpload ==
    \/ \E ctx \in {PyNone, ReportContext} : FileUploader(ctx)
    \/ \E widgets \in UploadMessages : SetFromProto(widgets)
    \/ CompactState
    \/ NewRun
SpecUpload == InitUpload /\ [][NextUpload]_vars

(***************************************************************************)
(* A session whose script has a button under the key "x" and a selectbox   *)
(* under the key "y"; the client also sends a trigger record for "z", an   *)
(* id no widget is registered under.                                       *)
(***************************************************************************)
ResetKeys == {"x", "y", "z"}
ResetCalls ==
    {[w |-> button, user_key |-> PyStr("x"), on_change |-> "None"],
     [w |-> selectbox(OPTIONS, 1), user_key |-> PyStr("y"), on_change |-> "None"]}
ResetStates ==
    <<WidgetStateProto("x", "trigger_value", PyBool(TRUE)),
      WidgetStateProto("y", "int_value", PyInt(2)),
      WidgetStateProto("z", "trigger_value", PyBool(TRUE))>>
ResetMessages ==
    {SelectSeq(ResetStates, LAMBDA p : p.id \in ids) : ids \in {{"x"}, {"x", "y", "z"}}}
NextReset ==
    \/ \E key \in {"y"} : GetItem(key)
    \/ \E key \in {"x", "y"} : SetItem(key, TriggerValue)
    \/ \E c \in ResetCalls : RegisterWidget(c)
    \/ \E widgets \in ResetMessages : SetFromProto(widgets)
    \/ ResetTriggers
    \/ CompactState
    \/ NewRun
SpecReset == Init /\ [][NextReset]_vars

(***************************************************************************)
(* A session whose script has two selectboxes, under the keys "x" and      *)
(* "y", whose on_change callbacks write st.session_state: each deletes or  *)
(* assigns the key of the other widget.                                    *)
(***************************************************************************)
EffectKeys == {"x", "y"}
EffectCalls ==
    {[w |-> selectbox(OPTIONS, 1), user_key |-> PyStr("x"), on_change |-> cb] :
        cb \in {"del_y", "set_y"}}
    \cup {[w |-> selectbox(OPTIONS, 1), user_key |-> PyStr("y"), on_change |-> cb] :
        cb \in {"del_x", "on_change"}}
EffectStates == {WidgetStateProto(id, "int_value", PyInt(i)) : id \in EffectKeys, i \in {1, 2}}
EffectMessages ==
    {<<a>> : a \in EffectStates}
    \cup {<<e[1], e[2]>> : e \in {p \in EffectStates \X EffectStates : p[1].id # p[2].id}}
NextEffects ==
    \/ \E c \in EffectCalls : RegisterWidget(c)
    \/ \E widgets \in EffectMessages : SetFromProto(widgets)
    \/ CallCallbacks
    \/ CompactState
    \/ NewRun
SpecEffects == Init /\ [][NextEffects]_vars

(***************************************************************************)
(* coalesce_widget_states applied to every pair of bounded WidgetStates.   *)
(***************************************************************************)
CoalesceIds == {"b", "c", "d"}
CoalesceValues ==
    {[which |-> "trigger_value", value |-> PyBool(TRUE)],
     [which |-> "trigger_value", value |-> PyBool(FALSE)],
     [which |-> "int_value", value |-> PyInt(1)]}
CoalesceStates ==
    {WidgetStateProto(id, v.which, v.value) : id \in CoalesceIds, v \in CoalesceValues}
CoalesceMessages ==
    UNION {{m \in [1..n -> CoalesceStates] :
               \A i, j \in 1..n : i # j => m[i].id # m[j].id} : n \in 0..MaxWidgets}

InitCoalesce ==
    /\ InitSession
    /\ press = [k \in UserKeys |-> "none"] /\ snapshot = <<>>
    /\ \E o, n \in CoalesceMessages :
          cw = [old_states |-> o, new_states |-> n, coalesced |-> <<>>, done |-> FALSE]

Coalesce ==
    /\ ~cw.done
    /\ cw' = [cw EXCEPT !.coalesced = coalesce_widget_states(cw.old_states, cw.new_states),
                        !.done = TRUE]
    /\ UNCHANGED <<session_vars, press, snapshot>>

SpecCoalesce == InitCoalesce /\ [][Coalesce]_vars

(***************************************************************************)
(* The serializer of a selectbox or select_slider applied to a value of    *)
(* the widget, and the widget's deserializer applied to the result, as     *)
(* get_serialized and __getitem__ apply them.  The call and its results    *)
(* are in cw: [w, v, exc, wire, back, stage].                              *)
(***************************************************************************)
OptionValues == {"a", "b", "c"}
OptionLists == UNION {[1..n -> OptionValues] : n \in 1..MaxOptions}
Elements(options) == {options[i] : i \in DOMAIN options}
\* A widget and a value it can have: an option, or a pair of options for a
\* range select_slider.
RoundTripInputs ==
    UNION {{[w |-> selectbox(o, 0), v |-> PyStr(e)] : e \in Elements(o)}
           \cup {[w |-> select_slider(o), v |-> PyStr(e)] : e \in Elements(o)}
           \cup {[w |-> select_slider_range(o, o[1], o[Len(o)]), v |-> PyTuple(<<e, f>>)] :
                    e \in Elements(o), f \in Elements(o)}
           : o \in OptionLists}
InitRoundTrip ==
    /\ InitSession
    /\ press = [k \in UserKeys |-> "none"] /\ snapshot = <<>>
    /\ \E i \in RoundTripInputs :
          cw = [w |-> i.w, v |-> i.v, exc |-> "", wire |-> PyNone, back |-> PyNone,
                stage |-> "value"]
\* serialized = metadata.serializer(item.value)
RoundTripSerialize ==
    /\ cw.stage = "value"
    /\ cw' = IF SerializeRaises(cw.w.serializer, cw.v)
             THEN [cw EXCEPT !.exc = "ValueError", !.stage = "raised"]
             ELSE [cw EXCEPT !.wire = SerializeCall(cw.w.serializer, cw.v),
                             !.stage = "wire"]
    /\ UNCHANGED <<session_vars, press, snapshot>>
\* deserialized = metadata.deserializer(value)
RoundTripDeserialize ==
    /\ cw.stage = "wire"
    /\ cw' = IF CallRaises(cw.w.deserializer, cw.wire)
             THEN [cw EXCEPT !.exc = "TypeError", !.stage = "raised"]
             ELSE [cw EXCEPT !.back = Call(cw.w.deserializer, cw.wire),
                             !.stage = "back"]
    /\ UNCHANGED <<session_vars, press, snapshot>>
NextRoundTrip == RoundTripSerialize \/ RoundTripDeserialize
SpecRoundTrip == InitRoundTrip /\ [][NextRoundTrip]_vars

(***************************************************************************)
(* Properties.                                                             *)
(***************************************************************************)
\* A step that performs one operation on the SessionState.
Step == nops' = nops + 1

AllKeys == UserKeys \cup WidgetIds

\* Whether _new_widget_state holds a value for k: a Value item, or a
\* Serialized item that has metadata.
HasWidgetValue(k) ==
    /\ k \in DictKeys(states)
    /\ (DictItem(states, k).tag = "Value" \/ k \in DOMAIN widget_metadata)

\* What st.session_state[key] can give in S: the values and exceptions.
GetResults(S, key) ==
    {[exc |-> g.exc, value |-> g.value] : g \in SessionState_getitem(S, key)}

\* C1: whenever get(key) returns a value or fails with MissingKey, it returns
\* the pending-user value if key is in pending-user, otherwise the
\* pending-widget value if key is in pending-widget, otherwise the committed
\* value, and it fails with MissingKey exactly when key is in no layer.
C1_get_shadowing ==
    [][(Step /\ ret'.op = "get" /\ ret'.exc \in {"", "KeyError"}) =>
         LET k == ret'.key
         IN  IF k \in DOMAIN _new_session_state
             THEN ret'.exc = "" /\ ret'.value = _new_session_state[k]
             ELSE IF HasWidgetValue(k)
             THEN /\ ret'.exc = ""
                  /\ DictItem(states', k).tag = "Value"
                  /\ ret'.value = DictItem(states', k).value
             ELSE IF k \in DOMAIN _old_state
             THEN ret'.exc = "" /\ ret'.value = _old_state[k]
             ELSE ret'.exc = "KeyError"]_vars

\* C2: compact() is transparent to readers: for every key, get(key) gives
\* the same outcome (the same value, or the same failure) right after
\* compact_state() as right before it.
C2_compact_transparent ==
    [][(Step /\ ret'.op = "compact") =>
         \A key \in AllKeys : GetResults(Self, key) = GetResults(Self', key)]_vars

\* C2 witness: a compaction has folded a client value ("c" is only ever the
\* deserialized wire value 2) into the committed layer.
C2_witness ==
    /\ ret.op = "compact" /\ ret.exc = ""
    /\ "x" \in DOMAIN _old_state /\ _old_state["x"] = PyStr("c")

\* C3: widget_ids_this_run is the set of widget ids register_widget was
\* called with in this run, and register_widget fails with DuplicateWidgetID
\* exactly when its widget id is already in it, whatever the two widgets are.
C3_duplicate_identity ==
    [][/\ (Step /\ ret'.op = "register") =>
             /\ (ret'.exc = "DuplicateWidgetID") <=> (ret'.key \in widget_ids_this_run)
             /\ widget_ids_this_run' = widget_ids_this_run \cup {ret'.key}
       /\ (Step /\ ret'.op = "new_run") => widget_ids_this_run' = {}
       /\ (Step /\ ret'.op \notin {"register", "new_run"}) =>
             widget_ids_this_run' = widget_ids_this_run]_vars

\* C3 witness: a widget was rejected as a duplicate of a select_slider
\* registered before it under the same id.
C3_witness ==
    /\ ret.op = "register" /\ ret.exc = "DuplicateWidgetID"
    /\ widget_metadata[ret.key].value_type = "double_array_value"

\* C4: a widget id whose registration returned stays in widget_ids_this_run
\* until the next run; set(key, v) on such a key fails and leaves the three
\* layers unchanged; set(key, v) on a key not registered in this run
\* succeeds and writes v into pending-user only.
C4_write_after_registration ==
    [][/\ (Step /\ ret'.op = "register" /\ ret'.exc = "") =>
             ret'.key \in widget_ids_this_run'
       /\ (Step /\ ret'.op # "new_run") => widget_ids_this_run \subseteq widget_ids_this_run'
       /\ (Step /\ ret'.op = "set") =>
             IF ret'.key \in widget_ids_this_run
             THEN /\ ret'.exc = "StreamlitAPIException"
                  /\ UNCHANGED <<_old_state, _new_session_state, states>>
             ELSE /\ ret'.exc = ""
                  /\ _new_session_state' = (ret'.key :> ret'.value) @@ _new_session_state
                  /\ UNCHANGED <<_old_state, states>>]_vars

\* C4 witness: a set on a registered widget's key was rejected.
C4_witness == ret.op = "set" /\ ret.exc = "StreamlitAPIException"

\* C5: register_widget returns set_val_in_frontend = true exactly when the
\* widget id is in pending-user at the registration, whatever the values;
\* a successful compaction empties pending-user.
C5_push_is_presence ==
    [][/\ (Step /\ ret'.op = "register" /\ ret'.exc = "") =>
             (ret'.flag <=> ret'.key \in DOMAIN _new_session_state)
       /\ (Step /\ ret'.op = "compact" /\ ret'.exc = "") =>
             _new_session_state' = <<>>]_vars

\* C5 witness: a registration asked for a push although the assigned value
\* equals the committed one.
C5_witness ==
    /\ ret.op = "register" /\ ret.exc = "" /\ ret.flag
    /\ ret.key \in DOMAIN _old_state
    /\ _old_state[ret.key] = _new_session_state[ret.key]

\* Whether key k is in none of the three layers.
InNoLayer(k) ==
    /\ k \notin DOMAIN _new_session_state
    /\ k \notin DictKeys(states)
    /\ k \notin DOMAIN _old_state

\* C6: when register_widget returns for an id that had no value in any
\* layer, committed[id] is deserializer(None) and that value is returned;
\* and a get of a widget id right after its registration returned succeeds.
C6_registered_identity_defined ==
    [][/\ (Step /\ ret'.op = "register" /\ ret'.exc = "" /\ InNoLayer(ret'.key)) =>
             LET d == widget_metadata'[ret'.key].deserializer
             IN  /\ ret'.key \in DOMAIN _old_state'
                 /\ _old_state'[ret'.key] = Call(d, PyNone)
                 /\ ret'.value = Call(d, PyNone)
       /\ (/\ Step /\ ret.op = "register" /\ ret.exc = ""
           /\ ret'.op = "get" /\ ret'.key = ret.key) =>
             ret'.exc = ""]_vars

\* C7: when a widget registered before is registered again with the same
\* metadata, the client's WidgetStates carried a value of the widget's value
\* type for its id, and the script did not assign the key, register_widget
\* returns the deserialized client value.
C7_client_value_returned ==
    [][(/\ Step /\ ret'.op = "register" /\ ret'.exc = ""
        /\ ret'.key \in DOMAIN widget_metadata
        /\ widget_metadata'[ret'.key] = widget_metadata[ret'.key]
        /\ ret'.key \notin DOMAIN _new_session_state
        /\ ret'.key \in DictKeys(states)
        /\ DictItem(states, ret'.key).tag = "Serialized"
        /\ DictItem(states, ret'.key).proto.which = widget_metadata[ret'.key].value_type) =>
         LET metadata == widget_metadata[ret'.key]
             proto == DictItem(states, ret'.key).proto
         IN  ret'.value = Call(metadata.deserializer, Extract(metadata, proto))]_vars

\* The ids of a WidgetStates message.
MessageIds(widgets) == {widgets[i].id : i \in DOMAIN widgets}

\* C8: if prev has a true trigger for id b and curr has no entry for b, the
\* result of coalesce has a true trigger for b.
C8_absent_trigger_restored ==
    cw.done =>
        \A i \in DOMAIN cw.old_states :
            (IsTrueTrigger(cw.old_states[i])
             /\ cw.old_states[i].id \notin MessageIds(cw.new_states)) =>
                \E j \in DOMAIN cw.coalesced :
                    /\ cw.coalesced[j].id = cw.old_states[i].id
                    /\ IsTrueTrigger(cw.coalesced[j])

\* A trigger entry of curr with value false whose id has a true trigger in prev.
PressedThenFalse(old_state, new_state) ==
    /\ IsTrueTrigger(old_state)
    /\ new_state.id = old_state.id
    /\ new_state.which = "trigger_value" /\ ~new_state.value.b

\* C9: if prev has a true trigger for id b and curr has a false trigger for
\* b, the result has an entry for b and it is a true trigger.
C9_false_trigger_overwritten ==
    cw.done =>
        \A i \in DOMAIN cw.old_states, n \in DOMAIN cw.new_states :
            PressedThenFalse(cw.old_states[i], cw.new_states[n]) =>
                /\ cw.old_states[i].id \in MessageIds(cw.coalesced)
                /\ \A j \in DOMAIN cw.coalesced :
                      cw.coalesced[j].id = cw.old_states[i].id =>
                          IsTrueTrigger(cw.coalesced[j])

\* C9 witness: coalesce was called with a true trigger in prev and a false
\* trigger for the same id in curr, next to another entry of curr.
C9_witness ==
    /\ cw.done /\ Len(cw.new_states) > 1
    /\ \E i \in DOMAIN cw.old_states, n \in DOMAIN cw.new_states :
          PressedThenFalse(cw.old_states[i], cw.new_states[n])

\* C10: if prev has no true trigger, the result of coalesce is curr.
C10_no_trigger_is_curr ==
    (cw.done /\ \A i \in DOMAIN cw.old_states : ~IsTrueTrigger(cw.old_states[i])) =>
        cw.coalesced = cw.new_states

\* C10 witness: prev has no true trigger and has an entry that curr lacks,
\* and curr is not empty.
C10_witness ==
    /\ cw.done /\ cw.new_states # <<>>
    /\ \A i \in DOMAIN cw.old_states : ~IsTrueTrigger(cw.old_states[i])
    /\ \E i \in DOMAIN cw.old_states : cw.old_states[i].id \notin MessageIds(cw.new_states)

\* A non-trigger entry of curr whose id has a true trigger in prev.
PressedThenOtherKind(old_state, new_state) ==
    /\ IsTrueTrigger(old_state)
    /\ new_state.id = old_state.id
    /\ new_state.which # "trigger_value"

\* C11: if prev has a true trigger for id b and curr's entry for b has
\* another value kind, the result has exactly one entry for b and it is
\* curr's entry.
C11_other_kind_untouched ==
    cw.done =>
        \A i \in DOMAIN cw.old_states, n \in DOMAIN cw.new_states :
            PressedThenOtherKind(cw.old_states[i], cw.new_states[n]) =>
                /\ \E j \in DOMAIN cw.coalesced : cw.coalesced[j] = cw.new_states[n]
                /\ \A j \in DOMAIN cw.coalesced :
                      cw.coalesced[j].id = cw.new_states[n].id =>
                          cw.coalesced[j] = cw.new_states[n]

\* C11 witness: coalesce was called with a true trigger in prev and an
\* int_value entry for the same id in curr.
C11_witness ==
    /\ cw.done
    /\ \E i \in DOMAIN cw.old_states, n \in DOMAIN cw.new_states :
          PressedThenOtherKind(cw.old_states[i], cw.new_states[n])

\* C12: a get right after reset_triggers(), of a key whose metadata has the
\* trigger value type, that returns a value returns False, also when the
\* script assigned the key earlier in the run.
C12_trigger_false_after_reset ==
    [][(/\ Step /\ ret.op = "reset_triggers" /\ ret'.op = "get"
        /\ IsTrigger(widget_metadata, ret'.key)
        /\ ret'.exc = "") =>
         ret'.value = PyBool(FALSE)]_vars

\* C13: once a true trigger for a key was read by a registration and the
\* run has ended with reset_triggers() and a completed compact_state(), a
\* registration of the key in a later run returns False, as long as the
\* client sends no new true trigger for the key (and the script of a later
\* run does not assign the key).
C13_trigger_read_once ==
    [][(/\ Step /\ ret'.op = "register"
        /\ ret'.key \in DOMAIN press /\ press[ret'.key] = "spent"
        /\ ret'.key \notin widget_ids_this_run) =>
         (ret'.exc = "" /\ ret'.value = PyBool(FALSE))]_vars

\* C14: the WidgetStates that as_widget_states() returns have an entry for
\* an id only if the id has metadata, and have, for every id of
\* _new_widget_state with metadata, an entry of the metadata's value type.
C14_snapshot_needs_metadata ==
    [][(Step /\ ret'.op = "as_widget_states" /\ ret'.exc = "") =>
         LET widgets == ret'.value.widgets
         IN  /\ \A i \in DOMAIN widgets : widgets[i].id \in DOMAIN widget_metadata
             /\ \A k \in DictKeys(states) \cap DOMAIN widget_metadata :
                   \E i \in DOMAIN widgets :
                       /\ widgets[i].id = k
                       /\ widgets[i].which = widget_metadata[k].value_type]_vars

\* A Serialized item of _new_widget_state whose id has no metadata.
IsStale(k) ==
    /\ k \in DictKeys(states)
    /\ DictItem(states, k).tag = "Serialized"
    /\ k \notin DOMAIN widget_metadata

\* Whether every item of _new_widget_state is a Value, a stale Serialized
\* item, or a Serialized item that its metadata deserializes.
NoBadValue ==
    \A k \in DictKeys(states) :
        IsStale(k) \/ WStates_getitem(states, widget_metadata, k).exc = ""

\* Whether key k has a value in some layer, a stale item counting as absent.
InOverlay(k) ==
    \/ k \in DOMAIN _new_session_state
    \/ HasWidgetValue(k)
    \/ k \in DOMAIN _old_state

\* C15: while a stale Serialized item is in _new_widget_state, a get of any
\* other key that has a value in a layer returns, a get of the stale id
\* itself fails with KeyError unless another layer has it, and
\* compact_state() completes.
C15_stale_record_absent ==
    [][(Step /\ NoBadValue /\ \E k \in DictKeys(states) : IsStale(k)) =>
         /\ (ret'.op = "get" /\ InOverlay(ret'.key)) => ret'.exc = ""
         /\ (ret'.op = "get" /\ ~InOverlay(ret'.key)) => ret'.exc = "KeyError"
         /\ ret'.op = "compact" => ret'.exc = ""]_vars

\* The callbacks that call_callbacks() must invoke:
\* the ids of _new_widget_state that have a callback and whose value in
\* _new_widget_state differs from the committed one.
ChangedWithCallback ==
    {k \in DictKeys(states) :
        /\ k \in DOMAIN widget_metadata
        /\ widget_metadata[k].callback # "None"
        /\ WStates_get(states, widget_metadata, k).value
             # (IF k \in DOMAIN _old_state THEN _old_state[k] ELSE PyNone)}

\* C16: one call_callbacks() invokes exactly once the callback of every id
\* of _new_widget_state that has a callback and whose value differs from the
\* committed one, and no other callback.
C16_changed_fire_once ==
    [][(Step /\ ret'.op = "call_callbacks" /\ NoBadValue) =>
         LET calls == ret'.value.ids
         IN  /\ \A i, j \in DOMAIN calls : i # j => calls[i] # calls[j]
             /\ {calls[i] : i \in DOMAIN calls} = ChangedWithCallback]_vars

\* Whether a layer of S holds a value for k.
InLayers(S, k) ==
    \/ k \in DOMAIN S.new_session_state
    \/ k \in DOMAIN S.old_state
    \/ /\ k \in DictKeys(S.states)
       /\ (DictItem(S.states, k).tag = "Value" \/ k \in DOMAIN S.widget_metadata)

\* The item of k in _new_widget_state, None when there is none.
WidgetItem(st, k) == IF k \in DictKeys(st) THEN DictItem(st, k) ELSE PyNone

C19_compact_empties_pending ==
    [][(Step /\ ret'.op = "compact" /\ NoBadValue) =>
         /\ states' = <<>>
         /\ _new_session_state' = <<>>
         /\ \A k \in DOMAIN _new_session_state \cap DictKeys(states) :
               k \in DOMAIN _old_state' /\ _old_state'[k] = _new_session_state[k]]_vars

\* C17 (as stated): a registration leaves the committed layer as it was, so
\* that a run abandoned before compact_state() leaves no committed value for
\* the widgets it registered first.
C17_abandoned_run_leaves_committed ==
    [][(Step /\ ret'.op = "register") => _old_state' = _old_state]_vars

\* C17 (amended): without compact_state(), a registration, a read or an
\* assignment changes the committed layer in one way only: a registration
\* writes deserializer(None) at its id when `widget_id in session_state` is
\* false.  No pending value reaches the committed layer.
C17_run_only_seeds_committed ==
    [][(Step /\ ret'.op \in {"register", "get", "set"}) =>
         \/ _old_state' = _old_state
         \/ /\ ret'.op = "register"
            /\ \E c \in SessionState_contains(
                            [Self EXCEPT !.widget_metadata = widget_metadata'], ret'.key) :
                  c.exc = "" /\ ~c.value
            /\ _old_state' =
                 (ret'.key :> Call(widget_metadata'[ret'.key].deserializer, PyNone))
                     @@ _old_state]_vars

\* The first operation of a session was a registration, and its id has a
\* committed value.
C17_witness ==
    nops = 1 /\ ret.op = "register" /\ ret.exc = "" /\ ret.key \in DOMAIN _old_state

C21_cull_keeps_live ==
    [][(Step /\ ret'.op = "cull_nonexistent") =>
         /\ DictKeys(states') = DictKeys(states) \cap ret'.value.ids
         /\ \A k \in DictKeys(states') : DictItem(states', k) = DictItem(states, k)]_vars

\* A cull with some id left out has kept a Serialized item.
C21_witness ==
    /\ ret.op = "cull_nonexistent"
    /\ ret.value.ids # StoreIds
    /\ \E k \in DictKeys(states) : DictItem(states, k).tag = "Serialized"

\* C22: a widget registered with a user key k has k itself as its widget
\* id: once the registration has returned, session_state[k] returns the
\* value the registration returned, k is in widget_ids_this_run, and an
\* assignment to session_state[k] is rejected.
C22_user_key_is_identity ==
    [][(Step /\ ret'.op = "register" /\ ret'.exc = "" /\ ret'.key \in UserKeys) =>
         /\ \A c \in WidgetCalls :
               c.user_key.t # "None" =>
                 get_widget_id(c.w.element_type, c.w.element_proto, c.user_key)
                   = c.user_key.s
         /\ \A g \in GetResults(Self', ret'.key) :
               g.exc = "" /\ g.value = ret'.value
         /\ ret'.key \in widget_ids_this_run'
         /\ \A v \in ScriptValues :
               SessionState_setitem(Self', widget_ids_this_run', ret'.key, v).exc
                 = "StreamlitAPIException"]_vars

\* The widget calls without a user key.
KeylessCalls == {c \in WidgetCalls : c.user_key.t = "None"}

\* C23: the id of a widget without a user key is a function of its element
\* type and proto and begins with GENERATED_WIDGET_KEY_PREFIX; when such a
\* widget is registered again and the client's WidgetStates carried a value
\* for that id in between, register_widget returns that value, deserialized.
C23_generated_identity ==
    [][(/\ Step /\ ret'.op = "register" /\ ret'.exc = ""
        /\ ret'.key \notin UserKeys) =>
         /\ \E c \in KeylessCalls :
               ret'.key = get_widget_id(c.w.element_type, c.w.element_proto, PyNone)
         /\ StartsWith(ret'.key, GENERATED_WIDGET_KEY_PREFIX)
         /\ (/\ ret'.key \in DOMAIN widget_metadata
             /\ ret'.key \in DictKeys(states)
             /\ DictItem(states, ret'.key).tag = "Serialized"
             /\ DictItem(states, ret'.key).proto.which
                  = widget_metadata'[ret'.key].value_type) =>
               ret'.value =
                 Call(widget_metadata'[ret'.key].deserializer,
                      Extract(widget_metadata'[ret'.key],
                              DictItem(states, ret'.key).proto))]_vars

\* The value the merged view has for k, a key of some layer.
MergedValue(k) ==
    IF k \in DOMAIN _new_session_state THEN _new_session_state[k]
    ELSE IF HasWidgetValue(k)
    THEN WStates_getitem(states, widget_metadata, k).value
    ELSE _old_state[k]

\* C24: to_dict() (and so iteration and len()) gives exactly the keys of the
\* merged view that do not begin with GENERATED_WIDGET_KEY_PREFIX, each with
\* its merged value.
C24_enumeration_filtered ==
    [][(Step /\ ret'.op = "to_dict" /\ NoBadValue) =>
         /\ ret'.exc = ""
         /\ DOMAIN ret'.value.d =
              {k \in AllKeys : InOverlay(k) /\ ~StartsWith(k, GENERATED_WIDGET_KEY_PREFIX)}
         /\ \A k \in DOMAIN ret'.value.d : ret'.value.d[k] = MergedValue(k)]_vars

\* C25: for a selectbox, a select_slider and a range select_slider,
\* deserializer(serializer(v)) = v for every option v of the widget (for a
\* range, every pair of options): neither call raises and the value that
\* comes back is v.
C25_round_trip ==
    /\ cw.stage # "raised"
    /\ cw.stage = "back" => cw.back = cw.v

\* The round trip of a pair of different options of a range select_slider
\* one of whose options occurs twice.
C25_witness ==
    /\ cw.stage = "back"
    /\ cw.v.t = "tuple" /\ cw.v.tl[1] # cw.v.tl[2]
    /\ Cardinality(Elements(cw.w.deserializer.options)) < Len(cw.w.deserializer.options)

\* The metadata a script can install for a key.
StoreMetadata(k) ==
    {WidgetMetadata(k, c.w.deserializer, c.w.serializer,
                    element_type_to_value_type[c.w.element_type], c.on_change)
       : c \in StoreCalls}

\* C26: an item of _new_widget_state changes only from Serialized to Value,
\* and only by a read: __getitem__ on a Value item returns its value and
\* leaves the item alone, whatever deserializer the metadata now has; the
\* reads of session_state[key], register_widget and call_callbacks leave a
\* Value item as it is and replace a Serialized one, if at all, by the Value
\* of its deserialized proto; after session_state[key] has returned, every
\* item is a Value.
C26_serialized_to_value_only ==
    [][(Step /\ ret'.op \in {"get", "register", "call_callbacks"}) =>
         /\ DictKeys(states') = DictKeys(states)
         /\ \A k \in DictKeys(states) :
               LET item == DictItem(states, k)
                   after == DictItem(states', k)
               IN  /\ item.tag = "Value" =>
                         /\ after = item
                         /\ \A md \in StoreMetadata(k) :
                               LET r == WStates_getitem(states, (k :> md) @@ widget_metadata, k)
                               IN  r.exc = "" /\ r.value = item.value /\ r.states = states
                   /\ (item.tag = "Serialized" /\ after # item) =>
                         after = Value(Call(widget_metadata'[k].deserializer,
                                            Extract(widget_metadata'[k], item.proto)))
         /\ (ret'.op = "get" /\ ret'.exc = "") =>
               \A k \in DictKeys(states') : DictItem(states', k).tag = "Value"]_vars

\* A registration with the options of the other version of the script has
\* returned the value cached by an earlier read.
C26_witness ==
    /\ ret.op = "register" /\ ret.exc = "" /\ ret.value = PyStr("c")
    /\ widget_metadata[ret.key].deserializer.options = OPTIONS2
    /\ ret.key \in DictKeys(states)
    /\ DictItem(states, ret.key) = Value(PyStr("c"))

\* C27: when register_widget returns and some layer already had a value for
\* its id (one that the widget's deserializer accepts), the three layers keep their values (the committed value is not
\* overwritten with deserializer(None)) and the merged value is returned,
\* also while _new_widget_state holds a Serialized record without metadata
\* for another id.
C27_registration_keeps_values ==
    [][(/\ Step /\ ret'.op = "register" /\ ret'.exc = ""
        /\ InLayers([Self EXCEPT !.widget_metadata = widget_metadata'], ret'.key)
        /\ ret'.key \in DictKeys(states) =>
              WStates_getitem(states, widget_metadata', ret'.key).exc = "") =>
         /\ _old_state' = _old_state
         /\ _new_session_state' = _new_session_state
         /\ DictKeys(states') = DictKeys(states)
         /\ \A k \in DictKeys(states) :
               DictItem(states', k).tag = "Value" =>
                 DictItem(states', k).value
                   = WStates_getitem(states, widget_metadata', k).value
         /\ ret'.value =
              (IF ret'.key \in DOMAIN _new_session_state
               THEN _new_session_state[ret'.key]
               ELSE IF ret'.key \in DictKeys(states)
               THEN WStates_getitem(states, widget_metadata', ret'.key).value
               ELSE _old_state[ret'.key])]_vars

\* C28: when the WidgetStates of this run carried a record for an id, of
\* the widget's value type, and every record has metadata, the value
\* register_widget returns for the id is that record deserialized by the
\* deserializer passed to this registration, whatever was read before
\* the widget call.
C28_fresh_deserializer ==
    [][(/\ Step /\ ret'.op = "register" /\ ret'.exc = ""
        /\ ret'.key \in DOMAIN snapshot
        /\ ret'.key \in DictKeys(states)
        /\ ret'.key \notin DOMAIN _new_session_state
        /\ \A k \in DictKeys(states) : k \in DOMAIN widget_metadata'
        /\ snapshot[ret'.key].which = widget_metadata'[ret'.key].value_type) =>
         ret'.value = Call(widget_metadata'[ret'.key].deserializer,
                           Extract(widget_metadata'[ret'.key], snapshot[ret'.key]))]_vars

\* C29: a register_widget call that raises DuplicateWidgetID leaves the
\* widget metadata and the three layers as they were; the metadata of the
\* first registration of the id stays.
C29_duplicate_changes_nothing ==
    [][(Step /\ ret'.op = "register" /\ ret'.exc = "DuplicateWidgetID") =>
         UNCHANGED <<widget_metadata, _old_state, _new_session_state, states>>]_vars

\* A widget call was rejected as a duplicate while the id, registered with
\* the options of one version of the script and a callback, has a record of
\* the client.
C29_witness ==
    /\ ret.op = "register" /\ ret.exc = "DuplicateWidgetID"
    /\ widget_metadata[ret.key].deserializer.options = OPTIONS2
    /\ widget_metadata[ret.key].callback = "on_change"
    /\ ret.key \in DictKeys(states)

\* C30: every id that call_callbacks() selects as changed has widget
\* metadata, so that the assertion of call_callback never fails.
C30_callback_has_metadata ==
    [][(Step /\ ret'.op = "call_callbacks") =>
         /\ ret'.exc # "AssertionError"
         /\ LET c == ChangedLoop(states, widget_metadata, _old_state)
            IN  \A i \in DOMAIN c.changed : c.changed[i] \in DOMAIN widget_metadata]_vars

\* The ids call_callbacks() finds changed before any callback runs, those
\* without a callback left out.
DecidedCalls ==
    SelectSeq(ChangedLoop(states, widget_metadata, _old_state).changed,
              LAMBDA id : id \notin DOMAIN widget_metadata
                          \/ widget_metadata[id].callback # "None")

\* C31: the callbacks one call_callbacks() invokes are those of the ids that
\* had changed before the first callback ran, in that order, whatever the
\* callbacks assign or delete in st.session_state; when the pass ends with
\* an exception, the callbacks invoked are the first of that list.
C31_changed_decided_first ==
    [][(Step /\ ret'.op = "call_callbacks") =>
         /\ Len(ret'.value.ids) <= Len(DecidedCalls)
         /\ ret'.value.ids = SubSeq(DecidedCalls, 1, Len(ret'.value.ids))
         /\ ret'.exc = "" => ret'.value.ids = DecidedCalls]_vars

\* Two callbacks have run in one pass, and the key of the second widget is
\* in no layer: the first callback had deleted it.
C31_witness ==
    /\ ret.op = "call_callbacks" /\ Len(ret.value.ids) = 2
    /\ ret.value.ids[2] \notin DOMAIN _old_state
    /\ ret.value.ids[2] \notin DictKeys(states)

\* C32: cull_nonexistent(widget_ids) changes _new_widget_state.states only:
\* _old_state, _new_session_state and widget_metadata are as before, so an
\* id whose record was removed still has the committed value and the
\* metadata it had, and the records left are records that were there.
C32_cull_changes_records_only ==
    [][(Step /\ ret'.op = "cull_nonexistent") =>
         /\ _old_state' = _old_state
         /\ _new_session_state' = _new_session_state
         /\ widget_metadata' = widget_metadata
         /\ \A k \in DictKeys(states) \ DictKeys(states') :
               /\ k \in DOMAIN _old_state => (k \in DOMAIN _old_state'
                                               /\ _old_state'[k] = _old_state[k])
               /\ k \in DOMAIN widget_metadata => (k \in DOMAIN widget_metadata'
                                                    /\ widget_metadata'[k] = widget_metadata[k])
         /\ \A i \in DOMAIN states' : \E j \in DOMAIN states : states'[i] = states[j]]_vars

\* A widget was registered and the client sent its record; the third call,
\* cull_nonexistent with a set that lacks the id, removed the record, and
\* the committed value and the metadata of the id are still there.
C32_witness ==
    /\ nops = 3 /\ ret.op = "cull_nonexistent"
    /\ \E k \in DOMAIN snapshot \ ret.value.ids :
          /\ k \notin DictKeys(states)
          /\ k \in DOMAIN _old_state /\ k \in DOMAIN widget_metadata

\* The keys of the records of _new_widget_state, in order.
StateKeys(st) == [i \in DOMAIN st |-> st[i].k]

\* C33: reset_triggers() adds no key to and removes no key from _old_state,
\* _new_session_state and _new_widget_state, and every key whose metadata
\* is missing or has a value type other than trigger_value keeps, in each
\* of the three, the value or record it had.
C33_reset_changes_triggers_only ==
    [][(Step /\ ret'.op = "reset_triggers") =>
         /\ DOMAIN _old_state' = DOMAIN _old_state
         /\ DOMAIN _new_session_state' = DOMAIN _new_session_state
         /\ StateKeys(states') = StateKeys(states)
         /\ \A k \in ResetKeys :
               ~IsTrigger(widget_metadata, k) =>
                 /\ k \in DOMAIN _old_state => _old_state'[k] = _old_state[k]
                 /\ k \in DOMAIN _new_session_state =>
                        _new_session_state'[k] = _new_session_state[k]
                 /\ WidgetItem(states', k) = WidgetItem(states, k)]_vars

\* reset_triggers() has put False in the record of the button "x", which the
\* client had sent as True, while the records of the selectbox "y" and of
\* "z", which has no metadata, are still the serialized ones the client sent.
C33_witness ==
    /\ ret.op = "reset_triggers"
    /\ IsTrigger(widget_metadata, "x")
    /\ "x" \in DOMAIN snapshot /\ snapshot["x"].value = PyBool(TRUE)
    /\ WidgetItem(states, "x") = Value(PyBool(FALSE))
    /\ "y" \in DOMAIN widget_metadata /\ ~IsTrigger(widget_metadata, "y")
    /\ WidgetItem(states, "y") = Serialized(ResetStates[2])
    /\ "z" \notin DOMAIN widget_metadata
    /\ WidgetItem(states, "z") = Serialized(ResetStates[3])

\* C34: when st.file_uploader's widget value is None or an empty list,
\* _get_file_recs calls neither method of the upload manager and returns
\* no record; when it is a list [n, a1..ak], it calls get_files with the
\* file ids [a1..ak], then remove_orphaned_files with newest_file_id n and
\* the same active ids, makes no other call, and returns what get_files
\* returned.
C34_file_uploader_decode ==
    [][(Step /\ ret'.op = "file_uploader" /\ ret'.exc = "") =>
         LET v == cw'.widget_value
         IN  IF v.t = "None" \/ v.l = <<>>
             THEN cw'.calls = <<>> /\ cw'.file_recs = <<>> /\ cw'.files = cw.files
             ELSE /\ Len(cw'.calls) = 2
                  /\ cw'.calls[1].fn = "get_files"
                  /\ cw'.calls[1].file_ids = Tail(v.l)
                  /\ cw'.calls[2].fn = "remove_orphaned_files"
                  /\ cw'.calls[2].newest_file_id = v.l[1]
                  /\ cw'.calls[2].active_file_ids = Tail(v.l)
                  /\ cw'.calls[1].widget_id = "x" /\ cw'.calls[2].widget_id = "x"
                  /\ cw'.file_recs =
                        SelectSeq(cw.files,
                                  LAMBDA f : \E i \in 2..Len(v.l) : v.l[i] = f)]_vars

\* st.file_uploader got a value with two active ids and returned a record
\* the manager had stored.
C34_witness ==
    /\ ret.op = "file_uploader" /\ ret.exc = ""
    /\ cw.widget_value.t = "list" /\ Len(cw.widget_value.l) = 3
    /\ Len(cw.calls) = 2 /\ Len(cw.file_recs) > 0

====
